---- MODULE Spec2Model ----
(***************************************************************************)
(* Model of the webhook notification pipeline of src/app.py:              *)
(* handle_webhook (POST /wallet), create_message, send_image_to_user and  *)
(* send_message_to_user, together with the collections they read and      *)
(* write (db.wallets, db.users, db.messages) and the Telegram transport.  *)
(*                                                                         *)
(* A request body is a JSON value.  An event is a function from the keys  *)
(* it carries to their values, so that a subscript data[0]['k'] of the    *)
(* source raises exactly when k is not in the DOMAIN of the event.        *)
(* Every call to a collaborator (MongoDB, Helius, Telegram) either        *)
(* returns or raises; which one is chosen by the environment.             *)
(***************************************************************************)
EXTENDS Integers, Sequences, FiniteSets, TLC

VARIABLES
    wallets,     \* db.wallets: the set of WalletRecords
    premium,     \* db.users: the user_ids whose plan is UserPlan.PREMIUM
    dbMessages,  \* db.messages: the sequence of inserted log entries
    data,        \* the body of the request being handled
    pc,          \* position of handle_webhook
    messages,    \* the list returned by create_message
    idx,         \* index of `message` in the for loop of handle_webhook
    env,         \* what the collaborators did inside create_message
    ops,         \* calls made to the message store and the transport, in order
    responses,   \* responses returned by handle_webhook for this request
    escaped,     \* TRUE iff an exception left handle_webhook
    history,     \* the requests handled before this one: body and log after it
    parked,      \* the locals of the call running beside this one
    walletDocs,  \* db.wallets as DatabaseManager writes it: documents in order
    result,      \* the last DatabaseManager call and what it returned
    nCalls,      \* the number of DatabaseManager calls made
    bot,         \* the conversations of src/bot.py and the users' user_data
    textIn,      \* the event and wallets whose text is being built
    textOut      \* the texts built so far, one per step of create_message

(* The variables of handle_webhook. *)
pipelineVars == <<wallets, premium, dbMessages, data, pc, messages, idx, env, ops,
                  responses, escaped>>

(* The variables of DatabaseManager. *)
registryVars == <<walletDocs, result, nCalls, bot>>

(* The variables of the text of one message. *)
textVars == <<textIn, textOut>>

vars == <<wallets, premium, dbMessages, data, pc, messages, idx, env, ops,
          responses, escaped, history, parked, walletDocs, result, nCalls,
          bot, textIn, textOut>>

----------------------------------------------------------------------------
(* Bounds of the model *)

MaxWallets == 2        \* WalletRecords in the registry
MaxInstructions == 1   \* instructions of an event
MaxTransfers == 1      \* tokenTransfers of an event
MaxRedeliveries == 1   \* times the provider posts the same body again
MaxCalls == 4          \* calls of add_wallet and delete_wallet

Users == {"u1", "u2"}
Addresses == {"A1", "A2"}
Statuses == {"active", "inactive"}

(* Sequences over S of length at most n. *)
SeqUpTo(S, n) == UNION {[1..k -> S] : k \in 0..n}

(* The elements of a sequence. *)
Range(s) == {s[i] : i \in DOMAIN s}

----------------------------------------------------------------------------
(* The wallet registry *)

WalletRecord == [user_id : Users, address : Addresses, status : Statuses]

Registries == {W \in SUBSET WalletRecord : Cardinality(W) <= MaxWallets}

----------------------------------------------------------------------------
(* Request bodies and events *)

EventKeys == {"type", "signature", "source", "description",
              "instructions", "tokenTransfers"}

(* At most one of the keys read by create_message is absent. *)
KeySets == {EventKeys} \cup {EventKeys \ {k} : k \in EventKeys}

(* An instruction with or without its 'accounts' key. *)
Instructions == {[accounts |-> {"A1"}], [programId |-> "p"]}

(* A token transfer; either user account key may be absent. *)
Transfers ==
    { [mint |-> "M2", tokenStandard |-> "NonFungible",
       fromUserAccount |-> "A2", toUserAccount |-> "A2"],
      [mint |-> "M1", tokenStandard |-> "Fungible", toUserAccount |-> "A1"],
      [mint |-> "M1", tokenStandard |-> "Fungible", fromUserAccount |-> "A1"] }

(* The description is empty or a text that names address A1. *)
Mentions(description) ==
    IF description = "A1 transferred 1 SOL" THEN {"A1"} ELSE {}

(* The type, description and events of the events of the model. *)
EventHeads ==
    { [type |-> "SWAP", description |-> "", events |-> {}],
      [type |-> "NFT_SALE", description |-> "", events |-> {"compressed"}],
      [type |-> "TRANSFER", description |-> "A1 transferred 1 SOL", events |-> {}],
      [type |-> "TRANSFER", description |-> "", events |-> {"compressed"}] }

FullEvents ==
    { [type |-> h.type,
       signature |-> "sig",
       source |-> "RAYDIUM",
       description |-> h.description,
       instructions |-> is,
       tokenTransfers |-> ts,
       events |-> h.events] :
        h \in EventHeads,
        is \in SeqUpTo(Instructions, MaxInstructions),
        ts \in SeqUpTo(Transfers, MaxTransfers) }

Events == {[k \in K \cup {"events"} |-> f[k]] : f \in FullEvents, K \in KeySets}

(* What request.is_json and request.json make of the body: a content type  *)
(* that is not JSON, a body that does not parse, a falsy JSON value (null, *)
(* [], {}, 0, "", false), a non-empty object, a truthy scalar, an array    *)
(* whose first element is not an object, an array whose first element is   *)
(* the event `first`.                                                      *)
Bodies ==
    {[kind |-> k] : k \in {"not_json", "unparsable", "falsy", "object",
                           "scalar", "array_of_scalars"}}
    \cup {[kind |-> "array", first |-> e] : e \in Events}

NoBody == [kind |-> "none"]

Has(e, k) == k \in DOMAIN e

----------------------------------------------------------------------------
(* create_message *)

(* data[0]['type'].replace("_", " ") *)
tx_type(type) ==
    CASE type = "NFT_SALE" -> "NFT SALE"
      [] type = "NFT_PURCHASE" -> "NFT PURCHASE"
      [] OTHER -> type

(* The same subscripts, with data[0]['source'] read by .get instead. *)
RaisesKeyErrorButSource(e) ==
    \/ ~Has(e, "type")
    \/ ~Has(e, "signature")
    \/ ~Has(e, "description")
    \/ ~Has(e, "instructions")
    \/ \E i \in DOMAIN e.instructions : ~Has(e.instructions[i], "accounts")
    \/ ~Has(e, "tokenTransfers")
    \/ \E i \in DOMAIN e.tokenTransfers :
          \/ ~Has(e.tokenTransfers[i], "fromUserAccount")
          \/ ~Has(e.tokenTransfers[i], "toUserAccount")

(* The subscripts of create_message that raise on the event e, in the     *)
(* order the function evaluates them.                                     *)
RaisesKeyError(e) ==
    \/ ~Has(e, "type")
    \/ ~Has(e, "signature")
    \/ ~Has(e, "source")
    \/ ~Has(e, "description")
    \/ /\ tx_type(e.type) \in {"NFT SALE", "NFT PURCHASE"}
       /\ ~Has(e, "tokenTransfers")
    \/ ~Has(e, "instructions")
    \/ \E i \in DOMAIN e.instructions : ~Has(e.instructions[i], "accounts")
    \/ ~Has(e, "tokenTransfers")
    \/ \E i \in DOMAIN e.tokenTransfers :
          \/ ~Has(e.tokenTransfers[i], "fromUserAccount")
          \/ ~Has(e.tokenTransfers[i], "toUserAccount")

(* The accounts of the instructions alone. *)
AccountsOfInstructions(e) ==
    UNION {inst.accounts : inst \in Range(e.instructions)}

(* The `accounts` list of create_message, as a set. *)
Accounts(e) ==
    UNION {inst.accounts : inst \in Range(e.instructions)}
    \cup {t.fromUserAccount : t \in Range(e.tokenTransfers)}
    \cup {t.toUserAccount : t \in Range(e.tokenTransfers)}

(* The query without its status filter. *)
FindWalletsAnyStatus(W, accounts) == {doc \in W : doc.address \in accounts}

(* db.wallets.find({"address": {"$in": accounts}, "status": "active"}) *)
FindActiveWallets(W, accounts) ==
    {doc \in W : doc.address \in accounts /\ doc.status = "active"}

(* All orders in which list(set(...)) may enumerate the set S. *)
Orders(S) ==
    {o \in [1..Cardinality(S) -> S] : \A i, j \in DOMAIN o : o[i] = o[j] => i = j}

(* One entry per found document instead of one per distinct user_id. *)
found_users_per_doc(found_docs) ==
    {[i \in DOMAIN o |-> o[i].user_id] : o \in Orders(found_docs)}

(* found_users = list(set(doc['user_id'] for doc in found_docs)): the     *)
(* lists this may yield.                                                   *)
found_users(found_docs) == Orders({doc.user_id : doc \in found_docs})

(* check_image: the image of a non-fungible transfer, else of a           *)
(* compressed asset, else ''; `provided` is what the metadata provider     *)
(* answers ('' when it fails).                                             *)
check_image(e, provided) ==
    IF ~Has(e, "tokenTransfers") THEN ""
    ELSE IF \E t \in Range(e.tokenTransfers) : t.tokenStandard = "NonFungible"
         THEN provided
    ELSE IF "compressed" \in e.events THEN provided
    ELSE ""

(* The text built from the documents of every found user. *)
UserMessageOfAllDocs(e, user, found_docs) ==
    LET inText == IF tx_type(e.type) \in {"SWAP", "NFT SALE", "NFT PURCHASE"}
                  THEN {} ELSE Mentions(e.description)
        own == {doc.address : doc \in found_docs}
    IN  [tx_type |-> tx_type(e.type),
         tx |-> e.signature,
         labelled |-> inText \cap own,
         abbreviated |-> inText \ own]

(* The text built for `user`: the canonical message, in which the          *)
(* addresses of the user's own wallets are replaced by their labels and    *)
(* every other address is abbreviated.                                     *)
UserMessage(e, user, found_docs) ==
    LET inText == IF tx_type(e.type) \in {"SWAP", "NFT SALE", "NFT PURCHASE"}
                  THEN {} ELSE Mentions(e.description)
        own == {doc.address : doc \in {d \in found_docs : d.user_id = user}}
    IN  [tx_type |-> tx_type(e.type),
         tx |-> e.signature,
         labelled |-> inText \cap own,
         abbreviated |-> inText \ own]

(* create_message in which a metadata provider that fails raises out of  *)
(* check_image.                                                            *)
create_message_uncontained(d, W, P, registry_ok, users_ok, provided, order) ==
    IF d.kind # "array" THEN <<>>
    ELSE IF RaisesKeyError(d.first) THEN <<>>
    ELSE IF provided = "" THEN <<>>
    ELSE IF ~registry_ok THEN <<>>
    ELSE LET e == d.first
             image == check_image(e, provided)
             found_docs == FindActiveWallets(W, Accounts(e))
         IN  IF order # <<>> /\ ~users_ok THEN <<>>
             ELSE [i \in DOMAIN order |->
                      [user |-> order[i],
                       text |-> UserMessage(e, order[i], found_docs),
                       image |-> image,
                       priority |-> order[i] \in P]]

(* create_message(data) when the registry answers (registry_ok), the       *)
(* premium lookup answers (users_ok), the metadata provider answers        *)
(* `provided` and found_users is the list `order`.                         *)
create_message(d, W, P, registry_ok, users_ok, provided, order) ==
    IF d.kind # "array" THEN <<>>
    ELSE IF RaisesKeyError(d.first) THEN <<>>
    ELSE IF ~registry_ok THEN <<>>
    ELSE LET e == d.first
             image == check_image(e, provided)
             found_docs == FindActiveWallets(W, Accounts(e))
         IN  IF order # <<>> /\ ~users_ok THEN <<>>
             ELSE [i \in DOMAIN order |->
                      [user |-> order[i],
                       text |-> UserMessage(e, order[i], found_docs),
                       image |-> image,
                       priority |-> order[i] \in P]]

(* The `result` process_token_transfers starts from. *)
NoTokenData ==
    [amount_in |-> 0, amount_out |-> 0, token_in |-> "", token_out |-> "",
     usd_value |-> 0]

(* process_token_transfers (lines 200-232) for transfers without a        *)
(* tokenAmount: info is the set of mints get_token_info answers for;      *)
(* token_in is the first fungible token of a swap that it answers for,    *)
(* token_out the last other one.                                          *)
process_token_transfers(transfers, type, info) ==
    LET known == {i \in DOMAIN transfers :
                     /\ transfers[i].mint \in info
                     /\ transfers[i].tokenStandard = "Fungible"
                     /\ type = "SWAP"}
    IN  IF known = {} THEN NoTokenData
        ELSE LET first == CHOOSE i \in known : \A j \in known : i <= j
                 last == CHOOSE i \in known : \A j \in known : j <= i
             IN  [NoTokenData EXCEPT
                     !.token_in = transfers[first].mint,
                     !.token_out = IF last = first THEN ""
                                   ELSE transfers[last].mint]

(* create_message calls db.wallets.find, and then db.users.find_one. *)
CallsRegistry(d) == d.kind = "array" /\ ~RaisesKeyError(d.first)

CallsUsers(d, W) ==
    /\ CallsRegistry(d)
    /\ FindActiveWallets(W, Accounts(d.first)) # {}

(* check_image asks the metadata provider: a transfer is non-fungible or *)
(* the event has a compressed asset.                                      *)
AsksProvider(e) ==
    /\ Has(e, "tokenTransfers")
    /\ \/ \E t \in Range(e.tokenTransfers) : t.tokenStandard = "NonFungible"
       \/ "compressed" \in e.events

(* check_image called in the loop over found_users. *)
ImageCallsPerUser(d, order) == IF CallsRegistry(d) THEN Len(order) ELSE 0

(* The number of calls of check_image (line 304): one, when no subscript  *)
(* of lines 238-301 raised.                                               *)
ImageCalls(d, order) == IF CallsRegistry(d) THEN 1 ELSE 0

(* No collaborator is called. *)
NoCalls ==
    [registry_ok |-> TRUE, users_ok |-> TRUE, failed |-> "",
     image_calls |-> 0, provider_ok |-> TRUE]

(* What the collaborators did inside create_message, for the calls it     *)
(* made: db.wallets.find returned, every db.users.find_one returned or    *)
(* the one for `failed` raised, the calls of check_image, and whether the *)
(* metadata provider answered it.                                         *)
Collaborators(d, W, registry_ok, users_ok, provided, order, failed) ==
    LET users_raised == CallsUsers(d, W) /\ registry_ok /\ ~users_ok
    IN  [registry_ok |-> CallsRegistry(d) => registry_ok,
         users_ok |-> ~users_raised,
         failed |-> IF users_raised THEN failed ELSE "",
         image_calls |-> ImageCalls(d, order),
         provider_ok |-> (CallsRegistry(d) /\ AsksProvider(d.first))
                            => provided # ""]

(* found_users computed from the accounts of every element of the array. *)
MessageOrdersOfAllElements(d, W) ==
    IF d.kind = "array" /\ ~RaisesKeyError(d.first)
    THEN found_users(FindActiveWallets(W,
             Accounts(d.first) \cup UNION {Accounts(e) : e \in Range(d.rest)}))
    ELSE {<<>>}

(* The lists found_users may be for the body d. *)
MessageOrders(d, W) ==
    IF d.kind = "array" /\ ~RaisesKeyError(d.first)
    THEN found_users(FindActiveWallets(W, Accounts(d.first)))
    ELSE {<<>>}

----------------------------------------------------------------------------
(* handle_webhook *)

Response(status, sent) == [status |-> status, messages_sent |-> sent]

(* The validation of the request: the status returned at once, "raise"    *)
(* when request.json raises (caught by the handler's own except), or      *)
(* "continue".                                                            *)
ValidateRequest(d) ==
    IF d.kind = "not_json" THEN "400"
    ELSE IF d.kind = "unparsable" THEN "raise"
    ELSE IF d.kind = "falsy" THEN "400"
    ELSE "continue"

(* data[0].get('signature', '') and data[0].get('type', '') *)
GetOr(e, k, default) == IF Has(e, k) THEN e[k] ELSE default

(* A db_entry that stores the type as it is displayed. *)
db_entry_displayed(message, d) ==
    [user |-> message.user,
     message |-> message.text,
     priority |-> message.priority,
     tx_signature |-> GetOr(d.first, "signature", ""),
     tx_type |-> tx_type(GetOr(d.first, "type", ""))]

(* The db_entry built for `message`. *)
db_entry(message, d) ==
    [user |-> message.user,
     message |-> message.text,
     priority |-> message.priority,
     tx_signature |-> GetOr(d.first, "signature", ""),
     tx_type |-> GetOr(d.first, "type", "")]

(* A failed insert that does not stop the notification. *)
AfterInsertNotify(ok) == "notify"

(* A failed insert that leaves the loop for the handler's except clause. *)
AfterInsertAbort(ok) == IF ok THEN "notify" ELSE "raised"

(* Where handle_webhook continues after db.messages.insert_one: an        *)
(* exception is caught by the except of the loop body, which continues    *)
(* with the next message.                                                 *)
AfterInsert(ok) == IF ok THEN "notify" ELSE "next"

(* A photo sent to premium subscribers only. *)
HasImageAndPriority(message) == message.image # "" /\ message.priority

(* A photo sent for every message. *)
HasImageAlways(message) == TRUE

(* Line 464: message.get('image') is truthy. *)
HasImage(message) == message.image # ""

(* The text sent after the photo whether or not the photo went out. *)
AfterSendImageAlways(ok) == "fallback"

(* Where send_image_to_user continues after get_image and send_photo: its *)
(* except clause calls send_message_to_user.                              *)
AfterSendImage(ok) == IF ok THEN "next" ELSE "fallback"

(* The count of the deliveries that succeeded. *)
messages_delivered(msgs, calls) ==
    Cardinality({j \in DOMAIN calls :
                    calls[j].op \in {"send_photo", "send_message"} /\ calls[j].ok})

(* "messages_sent": len(messages) *)
messages_sent(msgs, calls) == Len(msgs)

(* The position reached from `target`, and the loop index there. *)
Goto(target) ==
    IF target = "next"
    THEN pc' = "loop" /\ idx' = idx + 1
    ELSE pc' = target /\ idx' = idx

Call(op, message, ok) ==
    [op |-> op, index |-> idx, user |-> message.user, text |-> message.text,
     ok |-> ok]

TypeOK ==
    /\ wallets \in Registries
    /\ premium \subseteq Users
    /\ data \in Bodies \cup {NoBody}
    /\ pc \in {"idle", "validated", "raised", "loop", "notify", "fallback", "done"}
    /\ idx \in Nat
    /\ escaped \in BOOLEAN
    /\ Len(responses) <= 1

NoResult == [call |-> "none"]

NoText == [kind |-> "none"]

(* The bot has received no update. *)
NoBot == [updates |-> 0]

(* The locals of a call of handle_webhook that has not received its       *)
(* request.                                                               *)
IdleThread ==
    [data |-> NoBody, pc |-> "idle", messages |-> <<>>, idx |-> 0,
     env |-> NoCalls, ops |-> <<>>, responses |-> <<>>, escaped |-> FALSE]

(* DatabaseManager is not called. *)
RegistryUnused ==
    walletDocs = <<>> /\ result = NoResult /\ nCalls = 0 /\ bot = NoBot

(* No text is being built. *)
TextUnused == textIn = NoText /\ textOut = <<>>

Init ==
    /\ wallets \in Registries
    /\ premium = {"u1"}
    /\ dbMessages = <<>>
    /\ data = NoBody
    /\ pc = "idle"
    /\ messages = <<>>
    /\ idx = 0
    /\ env = NoCalls
    /\ ops = <<>>
    /\ responses = <<>>
    /\ escaped = FALSE
    /\ history = <<>>
    /\ parked = IdleThread
    /\ RegistryUnused
    /\ TextUnused

(* Lines 428-441: the request arrives and is validated. *)
ReceiveRequest ==
    /\ pc = "idle"
    /\ \E d \in Bodies :
          /\ data' = d
          /\ LET v == ValidateRequest(d)
             IN  CASE v = "400" ->
                        /\ responses' = Append(responses, Response(400, 0))
                        /\ pc' = "done"
                   [] v = "raise" ->
                        /\ responses' = responses
                        /\ pc' = "raised"
                   [] OTHER ->
                        /\ responses' = responses
                        /\ pc' = "validated"
    /\ UNCHANGED <<wallets, premium, dbMessages, messages, idx, env, ops, escaped>>
    /\ UNCHANGED <<history, parked, registryVars, textVars>>

(* create_message with a query that also marks what it found inactive. *)
CreateMessagesMarking ==
    /\ pc = "validated"
    /\ \E registry_ok \in BOOLEAN, users_ok \in BOOLEAN,
          provided \in {"", "img"}, order \in MessageOrders(data, wallets) :
      \E failed \in (IF order = <<>> THEN {""} ELSE Range(order)) :
          /\ messages' = create_message(data, wallets, premium, registry_ok,
                                        users_ok, provided, order)
          /\ env' = Collaborators(data, wallets, registry_ok, users_ok,
                                   provided, order, failed)
    /\ wallets' = IF CallsRegistry(data)
                  THEN {[w EXCEPT !.status = "inactive"] : w \in wallets}
                  ELSE wallets
    /\ idx' = 1
    /\ pc' = "loop"
    /\ UNCHANGED <<premium, dbMessages, data, ops, responses, escaped>>
    /\ UNCHANGED <<history, parked, registryVars, textVars>>

(* Line 444: messages = create_message(data). *)
CreateMessages ==
    /\ pc = "validated"
    /\ \E registry_ok \in BOOLEAN, users_ok \in BOOLEAN,
          provided \in {"", "img"}, order \in MessageOrders(data, wallets) :
      \E failed \in (IF order = <<>> THEN {""} ELSE Range(order)) :
          /\ messages' = create_message(data, wallets, premium, registry_ok,
                                        users_ok, provided, order)
          /\ env' = Collaborators(data, wallets, registry_ok, users_ok,
                                   provided, order, failed)
    /\ idx' = 1
    /\ pc' = "loop"
    /\ UNCHANGED <<wallets, premium, dbMessages, data, ops, responses, escaped>>
    /\ UNCHANGED <<history, parked, registryVars, textVars>>

(* Lines 449-460: db.messages.insert_one(db_entry). *)
SaveMessage ==
    /\ pc = "loop"
    /\ idx <= Len(messages)
    /\ \E ok \in BOOLEAN :
          /\ dbMessages' = IF ok THEN Append(dbMessages, db_entry(messages[idx], data))
                           ELSE dbMessages
          /\ ops' = Append(ops, Call("insert", messages[idx], ok))
          /\ Goto(AfterInsert(ok))
    /\ UNCHANGED <<wallets, premium, data, messages, env, responses, escaped>>
    /\ UNCHANGED <<history, parked, registryVars, textVars>>

(* Lines 464-470 and 88-98: send_image_to_user fetches the image and      *)
(* calls bot.send_photo; `ok` is FALSE when get_image or send_photo       *)
(* raises.  Neither send function lets an exception out, so the except    *)
(* clause of lines 477-485 is never entered.                              *)
SendImage ==
    /\ pc = "notify"
    /\ HasImage(messages[idx])
    /\ \E ok \in BOOLEAN :
          /\ ops' = Append(ops, Call("send_photo", messages[idx], ok))
          /\ Goto(AfterSendImage(ok))
    /\ UNCHANGED <<wallets, premium, dbMessages, data, messages, env, responses,
                   escaped>>
    /\ UNCHANGED <<history, parked, registryVars, textVars>>

(* Lines 471-476 and 75-86: send_message_to_user, which catches whatever  *)
(* bot.send_message raises.                                               *)
SendMessage ==
    /\ pc = "notify"
    /\ ~HasImage(messages[idx])
    /\ \E ok \in BOOLEAN :
          ops' = Append(ops, Call("send_message", messages[idx], ok))
    /\ Goto("next")
    /\ UNCHANGED <<wallets, premium, dbMessages, data, messages, env, responses,
                   escaped>>
    /\ UNCHANGED <<history, parked, registryVars, textVars>>

(* Lines 99-101: the except clause of send_image_to_user sends the text. *)
SendFallback ==
    /\ pc = "fallback"
    /\ \E ok \in BOOLEAN :
          ops' = Append(ops, Call("send_message", messages[idx], ok))
    /\ Goto("next")
    /\ UNCHANGED <<wallets, premium, dbMessages, data, messages, env, responses,
                   escaped>>
    /\ UNCHANGED <<history, parked, registryVars, textVars>>

(* Lines 491-495: the loop is over. *)
Respond ==
    /\ pc = "loop"
    /\ idx > Len(messages)
    /\ responses' = Append(responses, Response(200, messages_sent(messages, ops)))
    /\ pc' = "done"
    /\ UNCHANGED <<wallets, premium, dbMessages, data, messages, idx, env, ops,
                   escaped>>
    /\ UNCHANGED <<history, parked, registryVars, textVars>>

(* The exception leaves handle_webhook. *)
ExceptionEscapes ==
    /\ pc = "raised"
    /\ escaped' = TRUE
    /\ pc' = "done"
    /\ UNCHANGED <<wallets, premium, dbMessages, data, messages, idx, env, ops,
                   responses>>
    /\ UNCHANGED <<history, parked, registryVars, textVars>>

(* Lines 497-502: the except clause of handle_webhook. *)
HandleException ==
    /\ pc = "raised"
    /\ responses' = Append(responses, Response(500, 0))
    /\ pc' = "done"
    /\ UNCHANGED <<wallets, premium, dbMessages, data, messages, idx, env, ops,
                   escaped>>
    /\ UNCHANGED <<history, parked, registryVars, textVars>>

Handle ==
    \/ CreateMessages
    \/ SaveMessage
    \/ SendImage
    \/ SendMessage
    \/ SendFallback
    \/ Respond
    \/ HandleException

Next == ReceiveRequest \/ Handle

Spec == Init /\ [][Next]_vars

(* The registries without soft-deleted records: the query of             *)
(* create_message never returns an inactive record.                      *)
InitActive ==
    /\ Init
    /\ \A w \in wallets : w.status = "active"

(* Once a request is received the handler runs on: every call returns or *)
(* raises.                                                               *)
FairSpec == InitActive /\ [][Next]_vars /\ WF_vars(Handle)

----------------------------------------------------------------------------
(* The same event posted again *)

(* Lines 428-441, for a body the provider posts once more after the       *)
(* previous request was answered.                                         *)
ReceiveSameRequest ==
    /\ pc = "done"
    /\ Len(history) < MaxRedeliveries
    /\ history' = Append(history, [data |-> data, log |-> dbMessages])
    /\ messages' = <<>>
    /\ idx' = 0
    /\ ops' = <<>>
    /\ env' = NoCalls
    /\ LET v == ValidateRequest(data)
       IN  CASE v = "400" ->
                  /\ responses' = <<Response(400, 0)>>
                  /\ pc' = "done"
             [] v = "raise" ->
                  /\ responses' = <<>>
                  /\ pc' = "raised"
             [] OTHER ->
                  /\ responses' = <<>>
                  /\ pc' = "validated"
    /\ UNCHANGED <<wallets, premium, dbMessages, data, escaped>>
    /\ UNCHANGED <<parked, registryVars, textVars>>

RepeatNext == ReceiveRequest \/ Handle \/ ReceiveSameRequest

RepeatSpec == Init /\ [][RepeatNext]_vars

----------------------------------------------------------------------------
(* DatabaseManager.add_wallet and delete_wallet (src/utils/database-utils.py) *)

WalletNames == {"Trading", "NFT Wallet"}

(* The positions of the active documents of user_id with this address. *)
ActiveByAddress(docs, user_id, wallet_address) ==
    {i \in DOMAIN docs : /\ docs[i].user_id = user_id
                         /\ docs[i].address = wallet_address
                         /\ docs[i].status = "active"}

(* The positions of the active documents of user_id with this name. *)
ActiveByName(docs, user_id, wallet_name) ==
    {i \in DOMAIN docs : /\ docs[i].user_id = user_id
                         /\ docs[i].name = wallet_name
                         /\ docs[i].status = "active"}

NewWallet(user_id, wallet_address, wallet_name) ==
    [user_id |-> user_id, address |-> wallet_address, name |-> wallet_name,
     status |-> "active"]

(* add_wallet that looks for an active wallet of the same name. *)
add_wallet_by_name(docs, user_id, wallet_address, wallet_name, find_ok, insert_ok) ==
    IF ~find_ok THEN [docs |-> docs, returned |-> FALSE]
    ELSE IF ActiveByName(docs, user_id, wallet_name) # {}
         THEN [docs |-> docs, returned |-> FALSE]
    ELSE IF ~insert_ok THEN [docs |-> docs, returned |-> FALSE]
    ELSE [docs |-> Append(docs, NewWallet(user_id, wallet_address, wallet_name)),
          returned |-> TRUE]

(* add_wallet: the documents afterwards and the value returned; find_ok   *)
(* and insert_ok tell whether find_one and insert_one return or raise.    *)
add_wallet(docs, user_id, wallet_address, wallet_name, find_ok, insert_ok) ==
    IF ~find_ok THEN [docs |-> docs, returned |-> FALSE]
    ELSE IF ActiveByAddress(docs, user_id, wallet_address) # {}
         THEN [docs |-> docs, returned |-> FALSE]
    ELSE IF ~insert_ok THEN [docs |-> docs, returned |-> FALSE]
    ELSE [docs |-> Append(docs, NewWallet(user_id, wallet_address, wallet_name)),
          returned |-> TRUE]

(* The sequence s without its element at position i. *)
RemoveAt(s, i) == SubSeq(s, 1, i - 1) \o SubSeq(s, i + 1, Len(s))

(* delete_wallet that removes the document. *)
delete_wallet_removing(docs, user_id, wallet_name, update_ok) ==
    IF ~update_ok \/ ActiveByName(docs, user_id, wallet_name) = {}
    THEN {[docs |-> docs, returned |-> FALSE]}
    ELSE {[docs |-> RemoveAt(docs, i), returned |-> TRUE] :
             i \in ActiveByName(docs, user_id, wallet_name)}

(* delete_wallet: the possible outcomes; update_one changes one of the    *)
(* documents that match its filter, and modified_count tells whether it   *)
(* found one.                                                             *)
delete_wallet(docs, user_id, wallet_name, update_ok) ==
    IF ~update_ok \/ ActiveByName(docs, user_id, wallet_name) = {}
    THEN {[docs |-> docs, returned |-> FALSE]}
    ELSE {[docs |-> [docs EXCEPT ![i].status = "inactive"], returned |-> TRUE] :
             i \in ActiveByName(docs, user_id, wallet_name)}

(* handle_webhook is not running. *)
PipelineUnused ==
    /\ wallets = {}
    /\ premium = {}
    /\ dbMessages = <<>>
    /\ data = NoBody
    /\ pc = "idle"
    /\ messages = <<>>
    /\ idx = 0
    /\ env = NoCalls
    /\ ops = <<>>
    /\ responses = <<>>
    /\ escaped = FALSE
    /\ history = <<>>

RegistryInit ==
    /\ PipelineUnused
    /\ parked = IdleThread
    /\ TextUnused
    /\ walletDocs = <<>>
    /\ result = NoResult
    /\ nCalls = 0
    /\ bot = NoBot

AddWallet ==
    /\ nCalls < MaxCalls
    /\ \E user_id \in Users, wallet_address \in Addresses, wallet_name \in WalletNames,
          find_ok \in BOOLEAN, insert_ok \in BOOLEAN :
          LET r == add_wallet(walletDocs, user_id, wallet_address, wallet_name,
                              find_ok, insert_ok)
          IN  /\ walletDocs' = r.docs
              /\ result' = [call |-> "add_wallet", user_id |-> user_id,
                            address |-> wallet_address, name |-> wallet_name,
                            returned |-> r.returned]
    /\ nCalls' = nCalls + 1
    /\ UNCHANGED <<pipelineVars, history, parked, bot, textVars>>

DeleteWallet ==
    /\ nCalls < MaxCalls
    /\ \E user_id \in Users, wallet_name \in WalletNames, update_ok \in BOOLEAN :
          \E r \in delete_wallet(walletDocs, user_id, wallet_name, update_ok) :
              /\ walletDocs' = r.docs
              /\ result' = [call |-> "delete_wallet", user_id |-> user_id,
                            address |-> "", name |-> wallet_name,
                            returned |-> r.returned]
    /\ nCalls' = nCalls + 1
    /\ UNCHANGED <<pipelineVars, history, parked, bot, textVars>>

RegistryNext == AddWallet \/ DeleteWallet

RegistrySpec == RegistryInit /\ [][RegistryNext]_vars

----------------------------------------------------------------------------
(* Two calls of add_wallet at the same time.  `result` holds the call     *)
(* that takes the next step and `parked` the other one; a call is at its  *)
(* find_one, at its insert_one, or has returned.                          *)

MaxRacing == 2         \* calls of add_wallet started

(* db.wallets before the calls: empty, or one wallet of u1. *)
RaceRegistries ==
    {<<>>, <<NewWallet("u1", "A1", "Trading")>>,
     <<[NewWallet("u1", "A1", "Trading") EXCEPT !.status = "inactive"]>>}

RaceInit ==
    /\ PipelineUnused
    /\ TextUnused
    /\ walletDocs \in RaceRegistries
    /\ result = NoResult
    /\ parked = NoResult
    /\ nCalls = 0
    /\ bot = NoBot

(* Line 62: add_wallet is called. *)
StartAddWallet ==
    /\ nCalls < MaxRacing
    /\ IF result.call = "none" THEN TRUE ELSE result.at = "returned"
    /\ \E user_id \in Users, wallet_address \in Addresses, wallet_name \in WalletNames :
          result' = [call |-> "add_wallet", user_id |-> user_id,
                     address |-> wallet_address, name |-> wallet_name,
                     at |-> "find_one", returned |-> FALSE]
    /\ nCalls' = nCalls + 1
    /\ UNCHANGED <<pipelineVars, history, parked, walletDocs, bot, textVars>>

(* Lines 64-71: find_one and the test of existing_wallet; an exception    *)
(* is answered with False (lines 81-83).                                  *)
FindOne ==
    /\ result.call = "add_wallet"
    /\ result.at = "find_one"
    /\ \E find_ok \in BOOLEAN :
          result' = [result EXCEPT
                        !.at = IF /\ find_ok
                                  /\ ActiveByAddress(walletDocs, result.user_id,
                                                     result.address) = {}
                               THEN "insert_one" ELSE "returned"]
    /\ UNCHANGED <<pipelineVars, history, parked, walletDocs, nCalls, bot,
                   textVars>>

(* Lines 73-80: insert_one and return True. *)
InsertOne ==
    /\ result.call = "add_wallet"
    /\ result.at = "insert_one"
    /\ \E insert_ok \in BOOLEAN :
          /\ walletDocs' =
                 IF insert_ok
                 THEN Append(walletDocs, NewWallet(result.user_id, result.address,
                                                   result.name))
                 ELSE walletDocs
          /\ result' = [result EXCEPT !.at = "returned", !.returned = insert_ok]
    /\ UNCHANGED <<pipelineVars, history, parked, nCalls, bot, textVars>>

(* The other call takes the next step. *)
SwitchCall ==
    /\ result' = parked
    /\ parked' = result
    /\ UNCHANGED <<pipelineVars, history, walletDocs, nCalls, bot, textVars>>

RaceNext == StartAddWallet \/ FindOne \/ InsertOne \/ SwitchCall

RaceSpec == RaceInit /\ [][RaceNext]_vars

----------------------------------------------------------------------------
(* The webhook after add_wallet and delete_wallet have changed db.wallets *)

MaxChanges == 3        \* calls of add_wallet and delete_wallet before a request
MaxLater == 1          \* elements of the posted array after the first

(* The name under which each address is saved. *)
NameOf(wallet_address) == IF wallet_address = "A1" THEN "Trading" ELSE "NFT Wallet"

(* db.wallets as create_message queries it: the fields of the documents   *)
(* that the query and the loop over found_docs read.                      *)
WalletView(docs) ==
    {[user_id |-> docs[i].user_id, address |-> docs[i].address,
      status |-> docs[i].status] : i \in DOMAIN docs}

(* The events with at most one instruction and at most one transfer that *)
(* carry every key of the event; an instruction may lack its accounts.    *)
LiveEvents ==
    {e \in Events :
        /\ EventKeys \subseteq DOMAIN e
        /\ e.instructions \in {<<>>} \cup {<<i>> : i \in Instructions}
        /\ e.tokenTransfers \in {<<>>} \cup {<<t>> : t \in Transfers}}

(* An element after the first: an NFT sale that touches A1 and A2. *)
LaterEvents ==
    {[type |-> "NFT_SALE", signature |-> "sig2", source |-> "RAYDIUM",
      description |-> "", instructions |-> <<[accounts |-> {"A1"}]>>,
      tokenTransfers |-> <<[mint |-> "M2", tokenStandard |-> "NonFungible",
                            fromUserAccount |-> "A2", toUserAccount |-> "A2"]>>,
      events |-> {}]}

(* The bodies posted: an array of a first event and later elements, or a  *)
(* body that is no array.                                                 *)
LiveBodies ==
    {[kind |-> k] : k \in {"not_json", "unparsable", "falsy", "object",
                           "scalar", "array_of_scalars"}}
    \cup {[kind |-> "array", first |-> e, rest |-> r] :
             e \in LiveEvents, r \in SeqUpTo(LaterEvents, MaxLater)}

LiveInit ==
    /\ wallets = {}
    /\ premium = {"u1"}
    /\ dbMessages = <<>>
    /\ data = NoBody
    /\ pc = "idle"
    /\ messages = <<>>
    /\ idx = 0
    /\ env = NoCalls
    /\ ops = <<>>
    /\ responses = <<>>
    /\ escaped = FALSE
    /\ history = <<>>
    /\ parked = IdleThread
    /\ RegistryUnused
    /\ TextUnused

(* add_wallet, called by the bot before the request arrives. *)
Subscribe ==
    /\ pc = "idle"
    /\ nCalls < MaxChanges
    /\ \E user_id \in Users, wallet_address \in Addresses,
          find_ok \in BOOLEAN, insert_ok \in BOOLEAN :
          LET r == add_wallet(walletDocs, user_id, wallet_address,
                              NameOf(wallet_address), find_ok, insert_ok)
          IN  /\ walletDocs' = r.docs
              /\ wallets' = WalletView(r.docs)
    /\ nCalls' = nCalls + 1
    /\ UNCHANGED <<premium, dbMessages, data, pc, messages, idx, env, ops,
                   responses, escaped, history, parked, result, bot,
                   textVars>>

(* delete_wallet, called by the bot before the request arrives. *)
Unsubscribe ==
    /\ pc = "idle"
    /\ nCalls < MaxChanges
    /\ \E user_id \in Users, wallet_address \in Addresses, update_ok \in BOOLEAN :
          \E r \in delete_wallet(walletDocs, user_id, NameOf(wallet_address),
                                 update_ok) :
              /\ walletDocs' = r.docs
              /\ wallets' = WalletView(r.docs)
    /\ nCalls' = nCalls + 1
    /\ UNCHANGED <<premium, dbMessages, data, pc, messages, idx, env, ops,
                   responses, escaped, history, parked, result, bot,
                   textVars>>

(* Lines 428-441: the request arrives and is validated. *)
ReceiveEvent ==
    /\ pc = "idle"
    /\ \E d \in LiveBodies :
          /\ data' = d
          /\ LET v == ValidateRequest(d)
             IN  CASE v = "400" ->
                        /\ responses' = Append(responses, Response(400, 0))
                        /\ pc' = "done"
                   [] v = "raise" ->
                        /\ responses' = responses
                        /\ pc' = "raised"
                   [] OTHER ->
                        /\ responses' = responses
                        /\ pc' = "validated"
    /\ UNCHANGED <<wallets, premium, dbMessages, messages, idx, env, ops, escaped>>
    /\ UNCHANGED <<history, parked, registryVars, textVars>>

LiveNext == Subscribe \/ Unsubscribe \/ ReceiveEvent \/ Handle

LiveSpec == LiveInit /\ [][LiveNext]_vars

----------------------------------------------------------------------------
(* test_message (POST /test-message, lines 404-423) *)

(* What test_message answers: the messages, or an error. *)
TestResponse(status, kind, msgs) ==
    [status |-> status, kind |-> kind, messages |-> msgs]

(* Lines 408-411: only the content type is tested; request.json raises   *)
(* for a body that does not parse.                                        *)
ReceiveTestMessage ==
    /\ pc = "idle"
    /\ \E d \in Bodies :
          /\ data' = d
          /\ CASE d.kind = "not_json" ->
                    /\ responses' = Append(responses, TestResponse(400, "error", <<>>))
                    /\ pc' = "done"
               [] d.kind = "unparsable" ->
                    /\ responses' = responses
                    /\ pc' = "raised"
               [] OTHER ->
                    /\ responses' = responses
                    /\ pc' = "validated"
    /\ UNCHANGED <<wallets, premium, dbMessages, messages, idx, env, ops, escaped>>
    /\ UNCHANGED <<history, parked, registryVars, textVars>>

(* test_message that also saves what it rendered. *)
RenderMessagesSaving ==
    /\ pc = "validated"
    /\ \E registry_ok \in BOOLEAN, users_ok \in BOOLEAN,
          provided \in {"", "img"}, order \in MessageOrders(data, wallets) :
      \E failed \in (IF order = <<>> THEN {""} ELSE Range(order)) :
          LET msgs == create_message(data, wallets, premium, registry_ok,
                                     users_ok, provided, order)
          IN  /\ messages' = msgs
              /\ env' = Collaborators(data, wallets, registry_ok, users_ok,
                                       provided, order, failed)
              /\ responses' = Append(responses, TestResponse(200, "messages", msgs))
              /\ dbMessages' = dbMessages
                                  \o [i \in DOMAIN msgs |-> db_entry(msgs[i], data)]
    /\ pc' = "done"
    /\ UNCHANGED <<wallets, premium, data, idx, ops, escaped>>
    /\ UNCHANGED <<history, parked, registryVars, textVars>>

(* Lines 412-417: messages = create_message(data), returned with 200. *)
RenderMessages ==
    /\ pc = "validated"
    /\ \E registry_ok \in BOOLEAN, users_ok \in BOOLEAN,
          provided \in {"", "img"}, order \in MessageOrders(data, wallets) :
      \E failed \in (IF order = <<>> THEN {""} ELSE Range(order)) :
          LET msgs == create_message(data, wallets, premium, registry_ok,
                                     users_ok, provided, order)
          IN  /\ messages' = msgs
              /\ env' = Collaborators(data, wallets, registry_ok, users_ok,
                                       provided, order, failed)
              /\ responses' = Append(responses, TestResponse(200, "messages", msgs))
    /\ pc' = "done"
    /\ UNCHANGED <<wallets, premium, dbMessages, data, idx, ops, escaped>>
    /\ UNCHANGED <<history, parked, registryVars, textVars>>

(* Lines 418-423: the except clause of test_message. *)
TestException ==
    /\ pc = "raised"
    /\ responses' = Append(responses, TestResponse(500, "error", <<>>))
    /\ pc' = "done"
    /\ UNCHANGED <<wallets, premium, dbMessages, data, messages, idx, env, ops,
                   escaped>>
    /\ UNCHANGED <<history, parked, registryVars, textVars>>

RenderNext == ReceiveTestMessage \/ RenderMessages \/ TestException

RenderSpec == Init /\ [][RenderNext]_vars

----------------------------------------------------------------------------
(* Two requests handled at the same time.  Each call of handle_webhook   *)
(* has its own locals (data, messages, message, db_entry); db.wallets,    *)
(* db.users and db.messages are shared.  The variables of the pipeline    *)
(* hold the locals of the call that takes the next step, `parked` those   *)
(* of the other call.                                                     *)

(* The bodies of the two requests: one that does not parse, a transfer    *)
(* that names A1, and an NFT sale that touches A1 and A2.                 *)
ConcBodies ==
    {[kind |-> "unparsable"]}
    \cup {[kind |-> "array", first |-> e] :
             e \in LaterEvents \cup
                   {[type |-> "TRANSFER", signature |-> "sig", source |-> "RAYDIUM",
                     description |-> "A1 transferred 1 SOL",
                     instructions |-> <<[accounts |-> {"A1"}]>>,
                     tokenTransfers |-> <<>>, events |-> {}]}}

(* The registries of the two requests: both users watch, or one does. *)
ConcRegistries ==
    {{[user_id |-> "u1", address |-> "A1", status |-> "active"],
      [user_id |-> "u2", address |-> "A2", status |-> "active"]},
     {[user_id |-> "u2", address |-> "A1", status |-> "active"]}}

ConcInit ==
    /\ Init
    /\ wallets \in ConcRegistries

(* The locals of the call that takes the next step. *)
Running ==
    [data |-> data, pc |-> pc, messages |-> messages, idx |-> idx,
     env |-> env, ops |-> ops, responses |-> responses, escaped |-> escaped]

(* The other call takes the next step, and `messages` is a global of the  *)
(* module that both calls assign.                                         *)
SwitchSharingMessages ==
    /\ parked' = Running
    /\ data' = parked.data
    /\ pc' = parked.pc
    /\ idx' = parked.idx
    /\ env' = parked.env
    /\ ops' = parked.ops
    /\ responses' = parked.responses
    /\ escaped' = parked.escaped
    /\ UNCHANGED <<wallets, premium, dbMessages, messages>>
    /\ UNCHANGED <<history, registryVars, textVars>>

(* The other call takes the next step: the server runs each request in   *)
(* its own call of handle_webhook.                                        *)
Switch ==
    /\ parked' = Running
    /\ data' = parked.data
    /\ pc' = parked.pc
    /\ messages' = parked.messages
    /\ idx' = parked.idx
    /\ env' = parked.env
    /\ ops' = parked.ops
    /\ responses' = parked.responses
    /\ escaped' = parked.escaped
    /\ UNCHANGED <<wallets, premium, dbMessages>>
    /\ UNCHANGED <<history, registryVars, textVars>>

(* Lines 428-441: a request arrives and is validated. *)
ReceiveConcurrent ==
    /\ pc = "idle"
    /\ \E d \in ConcBodies :
          /\ data' = d
          /\ LET v == ValidateRequest(d)
             IN  CASE v = "400" ->
                        /\ responses' = Append(responses, Response(400, 0))
                        /\ pc' = "done"
                   [] v = "raise" ->
                        /\ responses' = responses
                        /\ pc' = "raised"
                   [] OTHER ->
                        /\ responses' = responses
                        /\ pc' = "validated"
    /\ UNCHANGED <<wallets, premium, dbMessages, messages, idx, env, ops, escaped>>
    /\ UNCHANGED <<history, parked, registryVars, textVars>>

ConcNext == ReceiveConcurrent \/ Handle \/ Switch

ConcSpec == ConcInit /\ [][ConcNext]_vars

----------------------------------------------------------------------------
(* Vocabulary of the properties *)

Deliveries == {"send_photo", "send_message"}

(* The positions of the calls `op` made for the message at index i. *)
CallsFor(i, op) == {j \in DOMAIN ops : ops[j].index = i /\ ops[j].op = op}

DeliveriesFor(i) == CallsFor(i, "send_photo") \cup CallsFor(i, "send_message")

(* The loop body is over for the message at index i. *)
Completed(i) == i \in DOMAIN messages /\ (pc = "done" \/ idx > i)

(* create_message has returned. *)
Created == pc \in {"loop", "notify", "fallback", "done"} /\ data.kind # "not_json"
              /\ data.kind # "falsy" /\ data.kind # "unparsable"

(* The event carries every key the renderer reads. *)
WellFormed(e) ==
    /\ EventKeys \subseteq DOMAIN e
    /\ \A i \in DOMAIN e.instructions : "accounts" \in DOMAIN e.instructions[i]
    /\ \A i \in DOMAIN e.tokenTransfers :
          {"fromUserAccount", "toUserAccount"} \subseteq DOMAIN e.tokenTransfers[i]

(* The accounts the event touches: instruction accounts plus transfer     *)
(* from/to accounts, whichever are present.                               *)
TouchedAccounts(e) ==
    LET is == IF "instructions" \in DOMAIN e THEN Range(e.instructions) ELSE {}
        ts == IF "tokenTransfers" \in DOMAIN e THEN Range(e.tokenTransfers) ELSE {}
    IN  UNION {i.accounts : i \in {x \in is : "accounts" \in DOMAIN x}}
        \cup {t.fromUserAccount : t \in {x \in ts : "fromUserAccount" \in DOMAIN x}}
        \cup {t.toUserAccount : t \in {x \in ts : "toUserAccount" \in DOMAIN x}}

(* The users with an active wallet among the touched accounts. *)
Subscribers(e) ==
    {u \in Users : \E w \in wallets :
        w.user_id = u /\ w.status = "active" /\ w.address \in TouchedAccounts(e)}

----------------------------------------------------------------------------
(* C1: for a message with an image, a failed photo delivery is followed   *)
(* by exactly one text delivery of the same text, a successful one by     *)
(* none; no message gets a successful photo and a text, or two texts.     *)
C1_FallbackExclusive ==
    \A i \in DOMAIN messages :
        LET photos == CallsFor(i, "send_photo")
            texts == CallsFor(i, "send_message")
        IN  /\ Cardinality(texts) <= 1
            /\ Cardinality(photos) <= 1
            /\ (\E j \in photos : ops[j].ok) => texts = {}
            /\ (messages[i].image # "" /\ Completed(i)) =>
                  \A j \in photos :
                      ~ops[j].ok =>
                          /\ Cardinality(texts) = 1
                          /\ \A k \in texts : k > j /\ ops[k].text = messages[i].text

C1_Witness ==
    \E i \in DOMAIN messages :
        /\ Completed(i)
        /\ messages[i].image # ""
        /\ \E j \in CallsFor(i, "send_photo") : ~ops[j].ok
        /\ CallsFor(i, "send_message") # {}

C3_FailureIsolated ==
    (pc = "done" /\ Created) =>
        \A i \in DOMAIN messages :
            /\ Cardinality(CallsFor(i, "insert")) = 1
            /\ (\E j \in CallsFor(i, "insert") : ops[j].ok) => DeliveriesFor(i) # {}

C3_Witness ==
    /\ pc = "done"
    /\ Len(messages) = 2
    /\ \E j \in CallsFor(1, "insert") : ~ops[j].ok
    /\ \E j \in CallsFor(2, "insert") : ops[j].ok
    /\ DeliveriesFor(2) # {}

C5_NoSubscriberNoMessage ==
    (Created /\ data.kind = "array" /\ Subscribers(data.first) = {}) =>
        /\ messages = <<>>
        /\ dbMessages = <<>>
        /\ ops = <<>>

C5_Witness ==
    /\ pc = "done"
    /\ data.kind = "array"
    /\ WellFormed(data.first)
    /\ Subscribers(data.first) = {}
    /\ \E w \in wallets : w.address \in TouchedAccounts(data.first)
    /\ \E w \in wallets : w.status = "active"
    /\ messages = <<>>

(* C6: every delivery attempt for a recipient comes after the successful  *)
(* append of that recipient's own log entry.                              *)
C6_AppendBeforeDelivery ==
    \A j \in DOMAIN ops :
        ops[j].op \in Deliveries =>
            /\ \E k \in 1..(j - 1) :
                  /\ ops[k].op = "insert"
                  /\ ops[k].index = ops[j].index
                  /\ ops[k].ok
            /\ \E n \in DOMAIN dbMessages :
                  /\ dbMessages[n].user = ops[j].user
                  /\ dbMessages[n].message = ops[j].text

C6_Witness ==
    /\ Len(messages) = 2
    /\ DeliveriesFor(1) # {}
    /\ DeliveriesFor(2) # {}

(* C7: a well-formed envelope is answered 200 with messages_sent equal to *)
(* the number of recipient messages, whatever persistence and delivery    *)
(* did.                                                                   *)
C7_SuccessCountsMessages ==
    (pc = "done" /\ data.kind = "array") =>
        responses = <<Response(200, Len(messages))>>

C7_Witness ==
    /\ pc = "done"
    /\ data.kind = "array"
    /\ Len(messages) = 2
    /\ \E j \in CallsFor(1, "insert") : ~ops[j].ok
    /\ DeliveriesFor(2) # {}
    /\ \A j \in DeliveriesFor(2) : ~ops[j].ok

(* C8: a body that is absent or malformed (not JSON, unparsable, empty,   *)
(* not a non-empty array of events) is answered with a client error and   *)
(* causes no log entry and no delivery; success is returned only for a    *)
(* non-empty array.                                                       *)
C8_MalformedBodyClientError ==
    pc = "done" =>
        /\ data.kind # "array" =>
              /\ Len(responses) = 1
              /\ responses[1].status = 400
              /\ ops = <<>>
              /\ dbMessages = <<>>
        /\ (Len(responses) = 1 /\ responses[1].status = 200) =>
              data.kind \in {"array", "array_of_scalars"}

(* C9: for an event missing one of the keys the renderer reads,           *)
(* create_message returns an empty list without raising, and              *)
(* handle_webhook appends nothing, sends nothing and does not crash.      *)
C9_MissingKeyNoMessage ==
    (Created /\ data.kind = "array" /\ ~WellFormed(data.first)) =>
        /\ messages = <<>>
        /\ dbMessages = <<>>
        /\ ops = <<>>
        /\ ~escaped
        /\ pc = "done" => (Len(responses) = 1 /\ responses[1].status = 200)

C9_Witness ==
    /\ pc = "done"
    /\ data.kind = "array"
    /\ "source" \notin DOMAIN data.first
    /\ Subscribers(data.first) # {}
    /\ messages = <<>>

(* C10: every request ends with exactly one response and no exception     *)
(* leaves the handler, whatever the payload and whichever collaborator    *)
(* calls fail.                                                            *)
C10_OneResponse ==
    /\ [](~escaped /\ Len(responses) <= 1 /\ (Len(responses) = 1 <=> pc = "done"))
    /\ [](pc # "idle" => <>(pc = "done"))

C10_Witness ==
    /\ pc = "done"
    /\ Len(responses) = 1
    /\ ~env.users_ok
    /\ Subscribers(data.first) # {}

(* The log as the request being handled found it. *)
BaseLog == IF history = <<>> THEN <<>> ELSE history[Len(history)].log

(* The entries appended while handling this request. *)
NewEntries == SubSeq(dbMessages, Len(BaseLog) + 1, Len(dbMessages))

IsPrefix(s, t) == Len(s) <= Len(t) /\ SubSeq(t, 1, Len(s)) = s

(* C11: handling the same event twice leaves the message log as handling  *)
(* it once did, with at most one entry per (user_id, tx_signature).       *)
C11_PersistenceIdempotent ==
    (pc = "done" /\ history # <<>>) =>
        /\ dbMessages = BaseLog
        /\ \A m, n \in DOMAIN dbMessages :
              (/\ dbMessages[m].user = dbMessages[n].user
               /\ dbMessages[m].tx_signature = dbMessages[n].tx_signature) => m = n

(* C16: no step of the notification pipeline changes the wallet records   *)
(* or the user plans, over any sequence of requests.                      *)
C16_RegistryUntouched ==
    [][wallets' = wallets /\ premium' = premium]_vars

C16_Witness ==
    /\ pc = "done"
    /\ history # <<>>
    /\ Len(dbMessages) >= 2
    /\ \E w \in wallets : w.status = "inactive"

(* C17: the message log only grows at its end, and each recipient message *)
(* adds at most one entry, which carries the recipient's user_id, the     *)
(* text handed to the transport, and the first event's signature and      *)
(* type.                                                                  *)
C17_LogAppendOnly ==
    /\ [][IsPrefix(dbMessages, dbMessages') /\ Len(dbMessages') <= Len(dbMessages) + 1]_vars
    /\ [](/\ IsPrefix(BaseLog, dbMessages)
          /\ \A i \in DOMAIN messages :
                Cardinality({n \in DOMAIN NewEntries :
                                NewEntries[n].user = messages[i].user}) <= 1
          /\ \A n \in DOMAIN NewEntries :
                \E i \in DOMAIN messages :
                    /\ NewEntries[n].user = messages[i].user
                    /\ NewEntries[n].message = messages[i].text
                    /\ NewEntries[n].tx_signature = data.first.signature
                    /\ NewEntries[n].tx_type = data.first.type
                    /\ \A j \in DeliveriesFor(i) :
                          ops[j].text = NewEntries[n].message)

C17_Witness ==
    /\ pc = "done"
    /\ history # <<>>
    /\ Len(NewEntries) = 2
    /\ Len(BaseLog) = 1
    /\ data.first.type = "NFT_SALE"
    /\ DeliveriesFor(2) # {}

(* The positions at which two sequences of equal length differ. *)
Changed(s, t) == {i \in DOMAIN s : s[i] # t[i]}

(* C18: over any sequence of add_wallet and delete_wallet calls no two    *)
(* active records share (user_id, address); add_wallet returns False and  *)
(* inserts nothing when the pair is already active.                       *)
C18_ActivePairUnique ==
    /\ [](\A i, j \in DOMAIN walletDocs :
            (/\ walletDocs[i].status = "active"
             /\ walletDocs[j].status = "active"
             /\ walletDocs[i].user_id = walletDocs[j].user_id
             /\ walletDocs[i].address = walletDocs[j].address) => i = j)
    /\ [][(/\ nCalls' = nCalls + 1
           /\ result'.call = "add_wallet"
           /\ \E i \in DOMAIN walletDocs :
                 /\ walletDocs[i].status = "active"
                 /\ walletDocs[i].user_id = result'.user_id
                 /\ walletDocs[i].address = result'.address)
          => (~result'.returned /\ walletDocs' = walletDocs)]_vars

C18_Witness ==
    /\ result.call = "add_wallet"
    /\ ~result.returned
    /\ \E i, j \in DOMAIN walletDocs :
          /\ walletDocs[i].status = "active"
          /\ walletDocs[j].status = "active"
          /\ walletDocs[i].address = walletDocs[j].address
          /\ walletDocs[i].user_id # walletDocs[j].user_id
          /\ walletDocs[i].user_id = result.user_id
          /\ walletDocs[i].address = result.address

(* C19: no call ever removes a record; delete_wallet only flips at most   *)
(* one active record of the calling user to inactive, leaves the other    *)
(* records as they are, and returns True iff it flipped one.              *)
C19_SoftDelete ==
    [][/\ Len(walletDocs') >= Len(walletDocs)
       /\ (nCalls' = nCalls + 1 /\ result'.call = "delete_wallet") =>
             /\ Len(walletDocs') = Len(walletDocs)
             /\ Cardinality(Changed(walletDocs, walletDocs')) <= 1
             /\ \A i \in Changed(walletDocs, walletDocs') :
                   /\ walletDocs[i].user_id = result'.user_id
                   /\ walletDocs[i].status = "active"
                   /\ walletDocs'[i] = [walletDocs[i] EXCEPT !.status = "inactive"]
             /\ result'.returned <=> Changed(walletDocs, walletDocs') # {}]_vars

C19_Witness ==
    /\ result.call = "delete_wallet"
    /\ result.returned
    /\ \E i, j \in DOMAIN walletDocs :
          /\ walletDocs[i].status = "inactive"
          /\ walletDocs[i].user_id = result.user_id
          /\ walletDocs[j].status = "active"
          /\ walletDocs[j].user_id = result.user_id
          /\ walletDocs[j].name = result.name

(* The users who get a message for the event being handled. *)
Recipients == {messages[i].user : i \in DOMAIN messages}

(* An active wallet of user u is named by an instruction or a transfer. *)
Watches(u, e) ==
    \E w \in wallets :
        /\ w.user_id = u
        /\ w.status = "active"
        /\ w.address \in TouchedAccounts(e)

Upper ==
    {"A", "B", "C", "D", "E", "F", "G", "H", "I", "J", "K", "L", "M", "N",
    "O", "P", "Q", "R", "S", "T", "U", "V", "W", "X", "Y", "Z"}

Lower ==
    {"a", "b", "c", "d", "e", "f", "g", "h", "i", "j", "k", "l", "m", "n",
    "o", "p", "q", "r", "s", "t", "u", "v", "w", "x", "y", "z"}

Digit ==
    {"0", "1", "2", "3", "4", "5", "6", "7", "8", "9"}

(* The class [A-Za-z0-9] of the pattern of line 330. *)
Alnum == Upper \cup Lower \cup Digit

(* The repetition {32,44} of the pattern of line 330. *)
MinRun == 32

MaxRun == 44

(* The characters format_wallet_address keeps at each end. *)
Keep == 4

(* The longest wallet name handle_wallet_name accepts. *)
NameLimit == 32

(* The lengths of the texts an event is built from. *)
SignatureLen == 88

AddressLen == 44

LongRunLen == 72

MaxTextUsers == 1

(* The base58 alphabet of signatures and addresses. *)
Base58 ==
    <<"1", "2", "3", "4", "5", "6", "7", "8", "9", "A", "B", "C", "D", "E",
    "F", "G", "H", "J", "K", "L", "M", "N", "P", "Q", "R", "S", "T", "U",
    "V", "W", "X", "Y", "Z", "a", "b", "c", "d", "e", "f", "g", "h", "i",
    "j", "k", "m", "n", "o", "p", "q", "r", "s", "t", "u", "v", "w", "x",
    "y", "z">>

(* The base58 text of n characters that starts at `start` in the alphabet *)
(* and advances by `step`; texts of different steps share no long run.    *)
Run(start, step, n) ==
    [i \in 1..n |-> Base58[((start - 1 + (i - 1) * step) % Len(Base58)) + 1]]

Min(a, b) == IF a <= b THEN a ELSE b

(* s[:Keep] and s[-Keep:] *)
First(s) == SubSeq(s, 1, Min(Keep, Len(s)))

Last(s) == SubSeq(s, Len(s) - Min(Keep, Len(s)) + 1, Len(s))

Dots ==
    <<".", ".", ".">>

(* Lines 118-124, and the default of wallet.get('name', ...) at line 323. *)
format_wallet_address(wallet_address) ==
    First(wallet_address) \o Dots \o Last(wallet_address)

(* pat occurs in text at position i. *)
MatchAt(text, i, pat) ==
    /\ i + Len(pat) - 1 <= Len(text)
    /\ \A j \in 1..Len(pat) : text[i + j - 1] = pat[j]

(* pat in text *)
Contains(text, pat) == \E i \in 1..(Len(text) + 1) : MatchAt(text, i, pat)

EndsWith(text, pat) ==
    /\ Len(pat) <= Len(text)
    /\ MatchAt(text, Len(text) - Len(pat) + 1, pat)

(* The least element of a non-empty set of positions. *)
Least(S) == CHOOSE p \in S : \A q \in S : p <= q

(* text[i:].replace(old, new): the occurrences of old, left to right and  *)
(* not overlapping, are replaced by new.                                   *)
RECURSIVE replace_from(_, _, _, _)
replace_from(text, old, new, i) ==
    LET found == {p \in i..Len(text) : MatchAt(text, p, old)}
    IN  IF found = {} THEN SubSeq(text, i, Len(text))
        ELSE LET p == Least(found)
             IN  SubSeq(text, i, p - 1) \o new
                     \o replace_from(text, old, new, p + Len(old))

replace(text, old, new) == replace_from(text, old, new, 1)

(* The length of the greedy match of [A-Za-z0-9]{32,44} at position i, or *)
(* 0 when the pattern does not match there: the match takes the           *)
(* alphanumeric characters from position i on, MaxRun of them at most.    *)
MatchLength(text, i) ==
    LET stops == {n \in 0..MaxRun :
                     \/ n = MaxRun
                     \/ i + n > Len(text)
                     \/ text[i + n] \notin Alnum}
        longest == Least(stops)
    IN  IF longest >= MinRun THEN longest ELSE 0

(* re.sub(r'[A-Za-z0-9]{32,44}', format_wallet_address, text[i:]): the    *)
(* leftmost match is found, as long as it can be, and the search resumes  *)
(* after it.                                                              *)
RECURSIVE sub_from(_, _)
sub_from(text, i) ==
    LET found == {p \in i..Len(text) : MatchLength(text, p) > 0}
    IN  IF found = {} THEN SubSeq(text, i, Len(text))
        ELSE LET p == Least(found)
                 n == MatchLength(text, p)
             IN  SubSeq(text, i, p - 1)
                     \o format_wallet_address(SubSeq(text, p, p + n - 1))
                     \o sub_from(text, p + n)

(* Line 330. *)
FormatRemaining(user_message) == sub_from(user_message, 1)

(* The literal texts of create_message, lines 238-291. *)
Underscore ==
    <<"_">>

Space ==
    <<" ">>

Star ==
    <<"*">>

On ==
    <<" ", "o", "n", " ">>

Paragraph ==
    <<"\n", "\n">>

Newline ==
    <<"\n">>

SWAP ==
    <<"S", "W", "A", "P">>

NFT_SALE ==
    <<"N", "F", "T", " ", "S", "A", "L", "E">>

NFT_PURCHASE ==
    <<"N", "F", "T", " ", "P", "U", "R", "C", "H", "A", "S", "E">>

RAYDIUM ==
    <<"R", "A", "Y", "D", "I", "U", "M">>

Sell ==
    <<"U+00F0", "U+0178", "U+201D", "U+00B4", " ", "S", "E", "L", "L">>

Buy ==
    <<"U+00F0", "U+0178", "U+0178", "U+00A2", " ", "B", "U", "Y">>

Sold ==
    <<"U+00F0", "U+0178", "U+201D", "U+00B4", " ", "S", "O", "L", "D">>

Bought ==
    <<"U+00F0", "U+0178", "U+0178", "U+00A2", " ", "B", "O", "U", "G", "H",
    "T">>

Price ==
    <<"U+00F0", "U+0178", "U+2019", "U+00B0", " ", "P", "r", "i", "c", "e",
    ":", " ">>

Sol ==
    <<" ", "S", "O", "L">>

Zero ==
    <<"0", ".", "0", "0">>

XrayLink ==
    <<"[", "X", "R", "A", "Y", "]", "(", "h", "t", "t", "p", "s", ":", "/",
    "/", "x", "r", "a", "y", ".", "h", "e", "l", "i", "u", "s", ".", "x",
    "y", "z", "/", "t", "x", "/">>

SolscanLink ==
    <<")", " ", "|", " ", "[", "S", "o", "l", "s", "c", "a", "n", "]", "(",
    "h", "t", "t", "p", "s", ":", "/", "/", "s", "o", "l", "s", "c", "a",
    "n", ".", "i", "o", "/", "t", "x", "/">>

CloseLink ==
    <<")">>

WalletPrefix ==
    <<"W", "a", "l", "l", "e", "t", " ">>

(* The event types, sources and descriptions rendered. *)
TextTypes ==
    {<<"T", "R", "A", "N", "S", "F", "E", "R">>,
     <<"S", "W", "A", "P">>,
     <<"N", "F", "T", "_", "S", "A", "L", "E">>,
     <<"N", "F", "T", "_", "P", "U", "R", "C", "H", "A", "S", "E">>,
     <<"s", "w", "a", "p">>,
     <<"N", "F", "T", " ", "S", "A", "L", "E">>,
     <<"T", "O", "K", "E", "N", "_", "M", "I", "N", "T">>}

SYSTEM_PROGRAM ==
    <<"S", "Y", "S", "T", "E", "M", "_", "P", "R", "O", "G", "R", "A", "M">>

TextSources ==
    {SYSTEM_PROGRAM, RAYDIUM,
     <<"J", "U", "P", "I", "T", "E", "R">>}

AddressA == Run(5, 3, AddressLen)

AddressB == Run(23, 5, AddressLen)

(* An address of the least length the pattern of line 330 matches. *)
AddressC == Run(40, 11, MinRun)

Signature == Run(1, 1, SignatureLen)

TextDescriptions ==
    {<<>>,
     AddressA \o <<" ", "t", "r", "a", "n", "s", "f", "e", "r", "r", "e", "d">>
         \o <<" ", "1", " ", "S", "O", "L", " ", "t", "o", " ">> \o AddressB,
     <<"M", "e", "m", "o", " ">> \o Run(1, 7, LongRunLen),
     <<"M", "i", "n", "t", "e", "d", " ", "N", "F", "T", " ", "#", "4", "2">>}

(* The wallet documents of one user: a premium user's custom names, a     *)
(* free user's generated name and a document without a name.              *)
TextWallets ==
    {[address |-> AddressA, named |-> TRUE,
      name |-> <<"T", "r", "a", "d", "i", "n", "g">>],
     [address |-> AddressA, named |-> TRUE, name |-> Run(30, 9, NameLimit)],
     [address |-> AddressA, named |-> TRUE,
      name |-> WalletPrefix \o format_wallet_address(AddressA)],
     [address |-> AddressB, named |-> FALSE, name |-> <<>>]}

TextUserWallets ==
    {<<w>> : w \in TextWallets}
        \cup {p \in TextWallets \X TextWallets : p[1].address # p[2].address}

(* The events and recipients a text is built for; the events carry no    *)
(* token transfer.                                                        *)
TextInputs ==
    [kind : {"text"},
     type : TextTypes,
     source : TextSources,
     description : TextDescriptions,
     signature : {Signature},
     users : {us \in SeqUpTo(TextUserWallets, MaxTextUsers) : us # <<>>}]

(* The type compared as it is posted. *)
TxTypeTextAsPosted(type) == type

(* Line 238. *)
TxTypeText(type) == replace(type, Underscore, Space)

(* Line 291. *)
Footer(tx) == Paragraph \o XrayLink \o tx \o SolscanLink \o tx \o CloseLink

(* Lines 285-288. *)
GenericHeader(type, source) ==
    Star \o TxTypeText(type) \o Star \o On \o source \o Paragraph

(* Lines 247-291: the canonical message of an event without token         *)
(* transfers.                                                             *)
Message(e) ==
    LET t == TxTypeText(e.type)
        body ==
            IF t = SWAP
            THEN (IF e.source = RAYDIUM THEN Sell ELSE Buy) \o Space
            ELSE IF t = NFT_SALE \/ t = NFT_PURCHASE
            THEN (IF t = NFT_SALE THEN Sold ELSE Bought) \o Space
                     \o On \o e.source \o Newline
                     \o Price \o Zero \o Sol
            ELSE GenericHeader(e.type, e.source) \o e.description
    IN  body \o Footer(e.signature)

(* Lines 322-327: the label substituted for a wallet of the recipient. *)
Label(wallet) ==
    Star \o (IF wallet.named THEN wallet.name
             ELSE format_wallet_address(wallet.address)) \o Star

(* Lines 321-327: the addresses of user_wallets are replaced, in order. *)
RECURSIVE Personalize(_, _)
Personalize(user_message, user_wallets) ==
    IF user_wallets = <<>> THEN user_message
    ELSE Personalize(replace(user_message, Head(user_wallets).address,
                             Label(Head(user_wallets))),
                     Tail(user_wallets))

(* Lines 317-330: the text of one recipient. *)
UserText(message, user_wallets) ==
    FormatRemaining(Personalize(message, user_wallets))

TextInit ==
    /\ PipelineUnused
    /\ parked = IdleThread
    /\ RegistryUnused
    /\ textIn \in TextInputs
    /\ textOut = <<>>

(* Lines 238-291: the canonical message is built. *)
BuildMessage ==
    /\ textIn # NoText
    /\ textOut = <<>>
    /\ textOut' = <<Message(textIn)>>
    /\ UNCHANGED <<pipelineVars, history, parked, registryVars,
                   textIn>>

(* Lines 316-337: one turn of the loop over found_users. *)
RenderForUser ==
    /\ textIn # NoText
    /\ Len(textOut) >= 1
    /\ Len(textOut) <= Len(textIn.users)
    /\ textOut' = Append(textOut, UserText(textOut[1],
                                            textIn.users[Len(textOut)]))
    /\ UNCHANGED <<pipelineVars, history, parked, registryVars,
                   textIn>>

TextNext == BuildMessage \/ RenderForUser

TextSpec == TextInit /\ [][TextNext]_vars

(* The same texts for recipients with two matched wallets, among them a   *)
(* wallet named by the address of another wallet of the same user.        *)
OrderWallets ==
    TextWallets
        \cup {[address |-> AddressA, named |-> TRUE, name |-> AddressC],
              [address |-> AddressC, named |-> FALSE, name |-> <<>>]}

(* found_docs of one user (line 318), in each order the cursor may return. *)
OrderUserWallets ==
    {p \in OrderWallets \X OrderWallets : p[1].address # p[2].address}

OrderInputs ==
    [kind : {"text"},
     type : TextTypes,
     source : TextSources,
     description : TextDescriptions,
     signature : {Signature},
     users : {<<p>> : p \in OrderUserWallets}]

OrderInit ==
    /\ PipelineUnused
    /\ parked = IdleThread
    /\ RegistryUnused
    /\ textIn \in OrderInputs
    /\ textOut = <<>>

OrderSpec == OrderInit /\ [][TextNext]_vars

----------------------------------------------------------------------------
(* The conversations of src/bot.py.  The dispatcher runs one handler at   *)
(* a time; each ConversationHandler keeps one state per (chat, user), and *)
(* context.user_data is kept per user.                                    *)

MaxUpdates == 4        \* updates the bot handles

FREE_WALLET_LIMIT == 3

PREMIUM_WALLET_LIMIT == 10

(* The conversations: the premium user u1, and the free user u2 in a      *)
(* private chat and in a group.                                           *)
Keys ==
    {[chat |-> "private", user |-> "u1"],
     [chat |-> "private", user |-> "u2"],
     [chat |-> "group", user |-> "u2"]}

BotAddresses == {"A1", "A2", "A3", "A4"}

(* What a user sends as an address, and as a name. *)
AddressTexts == {"A3", "A4", "hello"}

NameTexts == {"Trading", "a name of 33 characters"}

(* len(wallet_name) of the names sent. *)
NameLength(text) ==
    CASE text = "a name of 33 characters" -> NameLimit + 1
      [] text \in BotAddresses -> AddressLen
      [] OTHER -> 7

(* f"Wallet {wallet_address[:4]}...{wallet_address[-4:]}" *)
FreeName(wallet_address) == "Wallet " \o wallet_address

(* is_solana_wallet_address *)
is_solana_wallet_address(text) == text \in BotAddresses

(* PremiumManager.is_premium: False when find_one raises. *)
is_premium(user_id, find_ok) == find_ok /\ user_id \in premium

(* The positions of the active documents of user_id. *)
ActiveOf(docs, user_id) ==
    {i \in DOMAIN docs : docs[i].user_id = user_id /\ docs[i].status = "active"}

(* get_user_stats: the count of active wallets and the limit of the plan; *)
(* when a query raises, no wallet and the limit of the free plan.         *)
get_user_stats(docs, user_id, stats_ok) ==
    IF stats_ok
    THEN [active_wallets |-> Cardinality(ActiveOf(docs, user_id)),
          wallet_limit |-> IF user_id \in premium THEN PREMIUM_WALLET_LIMIT
                           ELSE FREE_WALLET_LIMIT]
    ELSE [active_wallets |-> 0, wallet_limit |-> FREE_WALLET_LIMIT]

(* get_user_wallets: the active documents of user_id, [] when find raises. *)
get_user_wallets(docs, user_id, find_ok) ==
    IF find_ok
    THEN SelectSeq(docs, LAMBDA d : d.user_id = user_id /\ d.status = "active")
    ELSE <<>>

(* db.wallets when the bot starts: empty; u2 with two and with three      *)
(* wallets; u1 with two wallets saved under the same name.                *)
BotRegistries ==
    {<<>>,
     <<NewWallet("u2", "A1", FreeName("A1")), NewWallet("u2", "A2", FreeName("A2"))>>,
     <<NewWallet("u2", "A1", FreeName("A1")), NewWallet("u2", "A2", FreeName("A2")),
       NewWallet("u2", "A3", FreeName("A3"))>>,
     <<NewWallet("u1", "A1", "Trading"), NewWallet("u1", "A2", "Trading")>>}

BotInit ==
    /\ wallets = {}
    /\ premium = {"u1"}
    /\ dbMessages = <<>>
    /\ data = NoBody
    /\ pc = "idle"
    /\ messages = <<>>
    /\ idx = 0
    /\ env = NoCalls
    /\ ops = <<>>
    /\ responses = <<>>
    /\ escaped = FALSE
    /\ history = <<>>
    /\ parked = IdleThread
    /\ TextUnused
    /\ walletDocs \in BotRegistries
    /\ result = NoResult
    /\ nCalls = 0
    /\ bot = [updates |-> 0,
              add |-> [k \in Keys |-> "END"],
              del |-> [k \in Keys |-> "END"],
              menu |-> [k \in Keys |-> <<>>],
              user_data |-> [u \in Users |-> [temp_wallet |-> "", temp_name |-> ""]]]

(* add_wallet_start (lines 144-180), the entry point of the add           *)
(* conversation.                                                          *)
AddWalletStart ==
    /\ bot.updates < MaxUpdates
    /\ \E k \in Keys, stats_ok \in BOOLEAN, reply_ok \in BOOLEAN :
          /\ bot.add[k] = "END"
          /\ LET stats == get_user_stats(walletDocs, k.user, stats_ok)
                 next == IF stats.active_wallets >= stats.wallet_limit THEN "END"
                         ELSE IF reply_ok THEN "ADDING_WALLET"
                         ELSE "END"
             IN  /\ bot' = [bot EXCEPT !.add[k] = next, !.updates = @ + 1]
                 /\ result' = [call |-> "add_wallet_start", user_id |-> k.user,
                               address |-> "", name |-> "",
                               returned |-> next = "ADDING_WALLET"]
    /\ UNCHANGED <<pipelineVars, history, parked, walletDocs, nCalls, textVars>>

(* handle_wallet_name (lines 213-275) for the conversation k and the text *)
(* of the update, with user_data as it is: the conversations, the         *)
(* documents and the call of add_wallet afterwards.                       *)
handle_wallet_name(b, docs, k, text, premium_ok, find_ok, insert_ok) ==
    LET named == is_premium(k.user, premium_ok)
        wallet_name == IF named THEN text ELSE b.user_data[k.user].temp_name
        wallet_address == b.user_data[k.user].temp_wallet
        r == add_wallet(docs, k.user, wallet_address, wallet_name, find_ok, insert_ok)
    IN  IF named /\ NameLength(text) > NameLimit
        THEN [bot |-> [b EXCEPT !.add[k] = "ADDING_NAME"], docs |-> docs,
              result |-> result, calls |-> 0]
        ELSE IF wallet_address = ""
        THEN [bot |-> [b EXCEPT !.add[k] = "END"], docs |-> docs,
              result |-> result, calls |-> 0]
        ELSE [bot |-> [b EXCEPT !.add[k] = "END"], docs |-> r.docs,
              result |-> [call |-> "add_wallet", user_id |-> k.user,
                          address |-> wallet_address, name |-> wallet_name,
                          returned |-> r.returned],
              calls |-> 1]

(* handle_wallet_address (lines 182-211): a user who is not premium gets  *)
(* a generated name, and handle_wallet_name runs at once.                 *)
HandleWalletAddress ==
    /\ bot.updates < MaxUpdates
    /\ \E k \in Keys, text \in AddressTexts, premium_ok \in BOOLEAN,
          find_ok \in BOOLEAN, insert_ok \in BOOLEAN :
          /\ bot.add[k] = "ADDING_WALLET"
          /\ LET counted == [bot EXCEPT !.updates = @ + 1]
                 stored == [counted EXCEPT !.user_data[k.user].temp_wallet = text]
                 named == [stored EXCEPT
                              !.user_data[k.user].temp_name = FreeName(text)]
                 after == handle_wallet_name(named, walletDocs, k, text, TRUE,
                                             find_ok, insert_ok)
             IN  IF ~is_solana_wallet_address(text)
                 THEN /\ bot' = counted
                      /\ UNCHANGED <<walletDocs, result, nCalls>>
                 ELSE IF is_premium(k.user, premium_ok)
                 THEN /\ bot' = [stored EXCEPT !.add[k] = "ADDING_NAME"]
                      /\ UNCHANGED <<walletDocs, result, nCalls>>
                 ELSE /\ bot' = after.bot
                      /\ walletDocs' = after.docs
                      /\ result' = after.result
                      /\ nCalls' = nCalls + after.calls
    /\ UNCHANGED <<pipelineVars, history, parked, textVars>>

(* handle_wallet_name (lines 213-275) in the state ADDING_NAME. *)
HandleWalletName ==
    /\ bot.updates < MaxUpdates
    /\ \E k \in Keys, text \in NameTexts, premium_ok \in BOOLEAN,
          find_ok \in BOOLEAN, insert_ok \in BOOLEAN :
          /\ bot.add[k] = "ADDING_NAME"
          /\ LET after == handle_wallet_name([bot EXCEPT !.updates = @ + 1],
                                             walletDocs, k, text, premium_ok,
                                             find_ok, insert_ok)
             IN  /\ bot' = after.bot
                 /\ walletDocs' = after.docs
                 /\ result' = after.result
                 /\ nCalls' = nCalls + after.calls
    /\ UNCHANGED <<pipelineVars, history, parked, textVars>>

(* delete_wallet_start (lines 326-380): one button per active wallet,     *)
(* with callback_data "delete_" and the name of the wallet.               *)
DeleteWalletStart ==
    /\ bot.updates < MaxUpdates
    /\ \E k \in Keys, find_ok \in BOOLEAN :
          /\ bot.del[k] = "END"
          /\ LET found == get_user_wallets(walletDocs, k.user, find_ok)
             IN  bot' = [bot EXCEPT
                            !.updates = @ + 1,
                            !.del[k] = IF found = <<>> THEN "END"
                                       ELSE "DELETING_WALLET",
                            !.menu[k] = [i \in DOMAIN found |->
                                            [name |-> found[i].name,
                                             address |-> found[i].address]]]
    /\ UNCHANGED <<pipelineVars, history, parked, walletDocs, result, nCalls,
                   textVars>>

(* handle_delete_callback (lines 382-418): the user presses the button    *)
(* shown for a wallet; delete_wallet gets the name of the button.         *)
HandleDeleteCallback ==
    /\ bot.updates < MaxUpdates
    /\ \E k \in Keys, update_ok \in BOOLEAN :
          /\ bot.del[k] = "DELETING_WALLET"
          /\ \E i \in DOMAIN bot.menu[k] :
             \E r \in delete_wallet(walletDocs, k.user, bot.menu[k][i].name,
                                    update_ok) :
                /\ walletDocs' = r.docs
                /\ result' = [call |-> "delete_wallet", user_id |-> k.user,
                              address |-> bot.menu[k][i].address,
                              name |-> bot.menu[k][i].name,
                              returned |-> r.returned]
          /\ bot' = [bot EXCEPT !.updates = @ + 1, !.del[k] = "END"]
    /\ nCalls' = nCalls + 1
    /\ UNCHANGED <<pipelineVars, history, parked, textVars>>

BotNext ==
    \/ AddWalletStart
    \/ HandleWalletAddress
    \/ HandleWalletName
    \/ DeleteWalletStart
    \/ HandleDeleteCallback

BotSpec == BotInit /\ [][BotNext]_vars

(***************************************************************************)
(* format_number (lines 48-57).  The text it returns is a record: the     *)
(* number shown, in hundredths, with its suffix, or the plain string of   *)
(* the argument.                                                          *)
(***************************************************************************)

Million == 1000000

Thousand == 1000

(* decimals=2: the hundredths in a unit. *)
Hundred == 100

Spread == 12           \* integers tried on each side of a threshold

Abs(n) == IF n < 0 THEN 0 - n ELSE n

(* The arguments: integers around zero and the thresholds, and values     *)
(* that are no numbers, given by their str().                             *)
Numbers ==
    {[numeric |-> TRUE, value |-> t + k, str |-> ""] :
        t \in {0 - Million, 0 - Thousand, 0, Thousand, Million},
        k \in (0 - Spread)..Spread}
    \cup {[numeric |-> FALSE, value |-> 0, str |-> x] : x \in {"None", "abc", "[]"}}

NumberInputs == [kind : {"number"}, number : Numbers]

(* f"{n/d:.2f}": the hundredths nearest to n/d; where n/d lies halfway    *)
(* between two of them the binary value of the quotient decides, and      *)
(* either may be shown.                                                   *)
Fixed(n, d) ==
    {h \in ((Hundred * n) \div d)..((Hundred * n) \div d + 1) :
        2 * Abs(Hundred * n - h * d) <= d}

(* format_number with thresholds that are exclusive. *)
format_number_above(number) ==
    IF ~number.numeric THEN {[kind |-> "plain", text |-> number.str]}
    ELSE IF number.value > Million
         THEN {[kind |-> "fixed", hundredths |-> h, suffix |-> "M"] :
                  h \in Fixed(number.value, Million)}
    ELSE IF number.value > Thousand
         THEN {[kind |-> "fixed", hundredths |-> h, suffix |-> "K"] :
                  h \in Fixed(number.value, Thousand)}
    ELSE {[kind |-> "fixed", hundredths |-> Hundred * number.value, suffix |-> ""]}

(* format_number(number): the texts it may return.  Comparing a value     *)
(* that is no number with an int raises TypeError, which the bare except  *)
(* turns into str(number).                                                *)
format_number(number) ==
    IF ~number.numeric THEN {[kind |-> "plain", text |-> number.str]}
    ELSE IF number.value >= Million
         THEN {[kind |-> "fixed", hundredths |-> h, suffix |-> "M"] :
                  h \in Fixed(number.value, Million)}
    ELSE IF number.value >= Thousand
         THEN {[kind |-> "fixed", hundredths |-> h, suffix |-> "K"] :
                  h \in Fixed(number.value, Thousand)}
    ELSE {[kind |-> "fixed", hundredths |-> Hundred * number.value, suffix |-> ""]}

NumberInit ==
    /\ PipelineUnused
    /\ parked = IdleThread
    /\ RegistryUnused
    /\ textIn \in NumberInputs
    /\ textOut = <<>>

(* Lines 48-57: format_number is called. *)
FormatNumber ==
    /\ textIn # NoText
    /\ textIn.kind = "number"
    /\ textOut = <<>>
    /\ \E r \in format_number(textIn.number) : textOut' = <<r>>
    /\ UNCHANGED <<pipelineVars, history, parked, registryVars,
                   textIn>>

NumberNext == FormatNumber

NumberSpec == NumberInit /\ [][NumberNext]_vars

(***************************************************************************)
(* The SWAP branch of create_message (lines 247-270): the header and the   *)
(* amount line name token_in, the links are built from a mint.             *)
(***************************************************************************)

(* The longest tokenTransfers list of a swap that is rendered. *)
MaxSwapTransfers == 3

(* The mints of the swaps. *)
SwapMints == {"M1", "M2", "M3"}

(* The symbol get_token_info (lines 59-73) returns for a mint. *)
SymbolOf(mint) ==
    CASE mint = "M1" -> "USDC"
      [] mint = "M2" -> "BONK"
      [] mint = "M3" -> "WIF"
      [] OTHER -> ""

(* The token transfers an event may carry. *)
SwapTransfers == [mint : SwapMints, tokenStandard : {"Fungible", "NonFungible"}]

(* The swaps: the transfers in every order and mix, and the mints that    *)
(* get_token_info answers for.                                            *)
SwapInputs ==
    {[kind |-> "swap", tokenTransfers |-> t, info |-> i] :
        t \in UNION {[1..n -> SwapTransfers] : n \in 0..MaxSwapTransfers},
        i \in SUBSET SwapMints}

(* No body: the message is the header's side word alone. *)
NoSwapBody == [body |-> FALSE, header |-> "", amount |-> "", for |-> "",
               links |-> ""]

(* Line 262: token_mint = data[0]['tokenTransfers'][0].get('mint', ''). *)
LinkMint(transfers, token_data) == transfers[1].mint

(* Lines 247-270: the parts of the SWAP message, the symbols shown in the *)
(* header, in the amount line and in the For line, and the mint in the    *)
(* three links.                                                           *)
SwapMessage(e) ==
    LET token_data == process_token_transfers(e.tokenTransfers, "SWAP", e.info)
    IN  IF token_data.token_in # "" /\ token_data.token_out # ""
        THEN [body |-> TRUE,
              header |-> SymbolOf(token_data.token_in),
              amount |-> SymbolOf(token_data.token_in),
              for |-> SymbolOf(token_data.token_out),
              links |-> LinkMint(e.tokenTransfers, token_data)]
        ELSE NoSwapBody

SwapInit ==
    /\ PipelineUnused
    /\ parked = IdleThread
    /\ RegistryUnused
    /\ textIn \in SwapInputs
    /\ textOut = <<>>

(* Lines 247-270: create_message renders the swap. *)
RenderSwap ==
    /\ textIn # NoText
    /\ textIn.kind = "swap"
    /\ textOut = <<>>
    /\ textOut' = <<SwapMessage(textIn)>>
    /\ UNCHANGED <<pipelineVars, history, parked, registryVars,
                   textIn>>

SwapNext == RenderSwap

SwapSpec == SwapInit /\ [][SwapNext]_vars

(* The texts built for the recipients so far. *)
UserTexts == {textOut[i] : i \in 2..Len(textOut)}

(* The event being rendered falls in the generic category. *)
GenericEvent ==
    /\ textIn # NoText
    /\ TxTypeText(textIn.type) \notin {SWAP, NFT_SALE, NFT_PURCHASE}

(* The wallets of user_wallets whose address was replaced by a label. *)
Substituted(message, user_wallets) ==
    {j \in DOMAIN user_wallets :
        Contains(Personalize(message, SubSeq(user_wallets, 1, j - 1)),
                 user_wallets[j].address)}

(* C12: the abbreviation of every run of 32 to 44 alphanumeric characters *)
(* is idempotent: applied to a text it has produced it changes nothing,   *)
(* runs longer than 44 characters included.                               *)
C12_RedactionIdempotent ==
    \A text \in UserTexts : FormatRemaining(text) = text

(* C13: every label substituted for a wallet of the recipient, a custom   *)
(* name of any allowed form or the abbreviated address, appears in the    *)
(* recipient's final text exactly as substituted.                         *)
C13_LabelsKept ==
    \A k \in 1..(Len(textOut) - 1) :
        \A j \in Substituted(textOut[1], textIn.users[k]) :
            Contains(textOut[k + 1], Label(textIn.users[k][j]))

(* C14: for every event variant the text of each recipient ends with the  *)
(* two-link footer that carries the full transaction signature in both    *)
(* URLs.                                                                  *)
C14_FooterKept ==
    \A text \in UserTexts : EndsWith(text, Footer(textIn.signature))

(* C15: the rendered text of a generic event whose source is              *)
(* SYSTEM_PROGRAM and whose description is not empty omits                *)
(* " on SYSTEM_PROGRAM" and includes the description; for any other       *)
(* source the text starts with "*{type}* on {source}".                    *)
C15_SystemProgramOmitted ==
    (GenericEvent /\ Len(textOut) >= 1) =>
        IF textIn.source = SYSTEM_PROGRAM
        THEN textIn.description # <<>> =>
                 /\ ~Contains(textOut[1], On \o SYSTEM_PROGRAM)
                 /\ Contains(textOut[1], textIn.description)
        ELSE IsPrefix(Star \o TxTypeText(textIn.type) \o Star \o On
                          \o textIn.source, textOut[1])

----------------------------------------------------------------------------
(* The calls made for the message at index i, in order. *)
CallsOf(i) ==
    LET ForMessage(c) == c.index = i
    IN  SelectSeq(ops, ForMessage)

OpNames(i) == [k \in DOMAIN CallsOf(i) |-> CallsOf(i)[k].op]

Outcomes(i) == [k \in DOMAIN CallsOf(i) |-> CallsOf(i)[k].ok]

SameImage == \A i, j \in DOMAIN messages : messages[i].image = messages[j].image

C24_PriorityNeutral ==
    \A i, j \in DOMAIN messages :
        (Completed(i) /\ Completed(j) /\ Outcomes(i) = Outcomes(j))
            => OpNames(i) = OpNames(j)

C24_Witness ==
    /\ pc = "done"
    /\ Len(messages) = 2
    /\ messages[1].priority # messages[2].priority
    /\ OpNames(1) = <<"insert", "send_photo", "send_message">>
    /\ OpNames(2) = OpNames(1)
    /\ Outcomes(1) = Outcomes(2)

(* C26: when the premium lookup raises for one recipient, the other       *)
(* recipients of the event still get their messages.                      *)
C26_LookupFailureContained ==
    (Created /\ data.kind = "array" /\ env.failed # "") =>
        \A u \in Subscribers(data.first) \ {env.failed} : u \in Recipients

(* The messages without their images. *)
WithoutImages(msgs) == [i \in DOMAIN msgs |-> [msgs[i] EXCEPT !.image = ""]]

----------------------------------------------------------------------------
(* user_id has an active, or only inactive, document for the address. *)
ActiveFor(user_id, wallet_address) ==
    \E i \in DOMAIN walletDocs :
        /\ walletDocs[i].user_id = user_id
        /\ walletDocs[i].address = wallet_address
        /\ walletDocs[i].status = "active"

DeletedFor(user_id, wallet_address) ==
    /\ ~ActiveFor(user_id, wallet_address)
    /\ \E i \in DOMAIN walletDocs :
          /\ walletDocs[i].user_id = user_id
          /\ walletDocs[i].address = wallet_address
          /\ walletDocs[i].status = "inactive"

OnlyFirst(d) == [kind |-> "array", first |-> d.first, rest |-> <<>>]

(* C25: for an array [e1, e2, ...] the messages, the log entries, the     *)
(* deliveries and the response are those of [e1]; an account that only a  *)
(* later element touches brings no message.                               *)
C25_OnlyFirstElement ==
    (Created /\ data.kind = "array") =>
        /\ \E order \in MessageOrders(OnlyFirst(data), wallets),
              provided \in {"", "img"} :
              messages = create_message(OnlyFirst(data), wallets, premium,
                                        env.registry_ok, env.users_ok,
                                        provided, order)
        /\ \A u \in Recipients : Watches(u, data.first)
        /\ \A j \in DOMAIN ops :
              /\ ops[j].text = messages[ops[j].index].text
              /\ ops[j].user = messages[ops[j].index].user
        /\ \A k \in DOMAIN dbMessages :
              \E i \in DOMAIN messages :
                  dbMessages[k] = db_entry(messages[i], OnlyFirst(data))
        /\ pc = "done" => responses = <<Response(200, Len(messages))>>

C25_Witness ==
    /\ pc = "done"
    /\ data.kind = "array"
    /\ data.rest # <<>>
    /\ TouchedAccounts(data.first) = {"A1"}
    /\ ActiveFor("u2", "A2")
    /\ ~ActiveFor("u2", "A1")
    /\ Recipients = {"u1"}
    /\ messages[1].image = ""
    /\ Len(dbMessages) = 1

Hash == <<"#">>

(* C28: the text of a recipient contains no '#', and the type name in it  *)
(* contains no underscore, whatever the type and the description are.     *)
C28_NoHashNoUnderscore ==
    \A text \in UserTexts :
        /\ ~Contains(text, Hash)
        /\ ~Contains(TxTypeText(textIn.type), Underscore)
        /\ GenericEvent => IsPrefix(Star \o TxTypeText(textIn.type) \o Star, text)

(* The type names as they are posted. *)
PostedSwap == <<"S", "W", "A", "P">>

PostedNftSale ==
    {<<"N", "F", "T", "_", "S", "A", "L", "E">>,
     <<"N", "F", "T", " ", "S", "A", "L", "E">>}

PostedNftPurchase ==
    {<<"N", "F", "T", "_", "P", "U", "R", "C", "H", "A", "S", "E">>,
     <<"N", "F", "T", " ", "P", "U", "R", "C", "H", "A", "S", "E">>}

(* The rendering the canonical message shows. *)
Renderings(text) ==
    {r \in {"swap", "sold", "bought", "generic"} :
        \/ r = "swap" /\ (IsPrefix(Sell \o Space, text) \/ IsPrefix(Buy \o Space, text))
        \/ r = "sold" /\ IsPrefix(Sold \o Space, text)
        \/ r = "bought" /\ IsPrefix(Bought \o Space, text)
        \/ r = "generic" /\ IsPrefix(Star, text)}

(* C29: every type selects exactly one rendering: "SWAP" the swap         *)
(* rendering, "NFT_SALE" or "NFT SALE" the NFT rendering labelled SOLD,   *)
(* "NFT_PURCHASE" or "NFT PURCHASE" the one labelled BOUGHT, and every    *)
(* other type, lower-case variants included, the generic rendering.       *)
C29_ClassificationTotal ==
    Len(textOut) >= 1 =>
        Renderings(textOut[1]) =
            {IF textIn.type = PostedSwap THEN "swap"
             ELSE IF textIn.type \in PostedNftSale THEN "sold"
             ELSE IF textIn.type \in PostedNftPurchase THEN "bought"
             ELSE "generic"}

C29_Witness ==
    /\ Len(textOut) >= 1
    /\ textIn.type = <<"s", "w", "a", "p">>
    /\ Renderings(textOut[1]) = {"generic"}

----------------------------------------------------------------------------
(* The WalletRecords of user u in the registry W. *)
RecordsOf(W, u) == {r \in W : r.user_id = u}

(* The registries that differ from db.wallets only in records of users    *)
(* other than u.                                                          *)
SameFor(u) == {W \in Registries : RecordsOf(W, u) = RecordsOf(wallets, u)}

(* C31: the text generated for a recipient is the same for any two        *)
(* registries that differ only in WalletRecords of other users, and it    *)
(* carries no label derived from another user's record.                   *)
C31_NoLeakAcrossUsers ==
    (Created /\ data.kind = "array") =>
        \A i \in DOMAIN messages :
            LET u == messages[i].user
            IN  /\ \A W \in SameFor(u) :
                      UserMessage(data.first, u,
                                  FindActiveWallets(W, Accounts(data.first)))
                          = messages[i].text
                /\ messages[i].text.labelled
                       \subseteq {r.address : r \in RecordsOf(wallets, u)}

(* A recipient whose text abbreviates an address that another recipient's *)
(* active wallet has.                                                     *)
C31_Witness ==
    /\ Created
    /\ data.kind = "array"
    /\ \E i \in DOMAIN messages :
          /\ messages[i].user = "u1"
          /\ messages[i].text.abbreviated = {"A1"}
          /\ \E r \in wallets :
                r.user_id = "u2" /\ r.address = "A1" /\ r.status = "active"

----------------------------------------------------------------------------
(* C32: for a fixed canonical text and a fixed set of matched wallets of  *)
(* one recipient, the text does not depend on the order in which the      *)
(* wallets are iterated, also when the label of one wallet contains the   *)
(* address of another.                                                    *)
C32_OrderIndependent ==
    \A k \in 1..(Len(textOut) - 1) :
        \A user_wallets \in Orders(Range(textIn.users[k])) :
            UserText(textOut[1], user_wallets) = textOut[k + 1]

----------------------------------------------------------------------------
(* The two calls of handle_webhook. *)
Threads == {Running, parked}

CallAt(i, op, message, ok) ==
    [op |-> op, index |-> i, user |-> message.user, text |-> message.text,
     ok |-> ok]

(* The calls a request handled alone makes for its i-th message: a failed *)
(* insert; or the insert and the text; or the insert, the photo and,      *)
(* when the photo fails, the text.                                        *)
AloneCalls(i, message) ==
    {<<CallAt(i, "insert", message, FALSE)>>}
    \cup (IF HasImage(message)
          THEN {<<CallAt(i, "insert", message, TRUE),
                  CallAt(i, "send_photo", message, TRUE)>>}
               \cup {<<CallAt(i, "insert", message, TRUE),
                       CallAt(i, "send_photo", message, FALSE),
                       CallAt(i, "send_message", message, ok)>> : ok \in BOOLEAN}
          ELSE {<<CallAt(i, "insert", message, TRUE),
                  CallAt(i, "send_message", message, ok)>> : ok \in BOOLEAN})

(* The calls a request handled alone makes for its first n messages. *)
RECURSIVE AloneOps(_, _)
AloneOps(msgs, n) ==
    IF n = 0 THEN {<<>>}
    ELSE {a \o b : a \in AloneOps(msgs, n - 1), b \in AloneCalls(n, msgs[n])}

(* The messages a request with body d handled alone may generate. *)
AloneMessages(d) ==
    {create_message(d, wallets, premium, registry_ok, users_ok, provided, order) :
        registry_ok \in BOOLEAN, users_ok \in BOOLEAN, provided \in {"", "img"},
        order \in MessageOrders(d, wallets)}

(* The log entries the call t has appended, in order. *)
EntriesOf(t) ==
    LET inserted == SelectSeq(t.ops, LAMBDA c : c.op = "insert" /\ c.ok)
    IN  [j \in DOMAIN inserted |->
            db_entry(t.messages[inserted[j].index], t.data)]

(* s is an interleaving of a and b. *)
RECURSIVE IsMerge(_, _, _)
IsMerge(s, a, b) ==
    IF s = <<>> THEN a = <<>> /\ b = <<>>
    ELSE \/ a # <<>> /\ Head(a) = Head(s) /\ IsMerge(Tail(s), Tail(a), b)
         \/ b # <<>> /\ Head(b) = Head(s) /\ IsMerge(Tail(s), a, Tail(b))

(* C33: under any interleaving of two POST /wallet requests with an       *)
(* unchanged registry, the messages, the log entries and the delivery     *)
(* attempts of each request are those of the request handled alone, and   *)
(* the log holds the entries of both.                                     *)
C33_NoInterference ==
    /\ \A t \in Threads :
          (t.pc \in {"loop", "notify", "fallback", "done"} /\ t.data.kind = "array") =>
              /\ t.messages \in AloneMessages(t.data)
              /\ \E calls \in AloneOps(t.messages, Len(t.messages)) :
                    IsPrefix(t.ops, calls)
              /\ t.pc = "done" =>
                    /\ t.ops \in AloneOps(t.messages, Len(t.messages))
                    /\ t.responses = <<Response(200, Len(t.messages))>>
    /\ IsMerge(dbMessages, EntriesOf(Running), EntriesOf(parked))

(* Both requests are answered and the entries of one lie between the      *)
(* entries of the other in the log.                                       *)
C33_Witness ==
    /\ pc = "done"
    /\ parked.pc = "done"
    /\ Len(dbMessages) = 3
    /\ dbMessages[1].tx_signature = "sig2"
    /\ dbMessages[2].tx_signature = "sig"
    /\ dbMessages[3].tx_signature = "sig2"
    /\ Len(EntriesOf(Running)) + Len(EntriesOf(parked)) = 3

----------------------------------------------------------------------------
(* C34: no two active records share (user_id, address), also when two     *)
(* calls of add_wallet for the same pair interleave between find_one and  *)
(* insert_one.                                                            *)
C34_UniqueUnderConcurrency ==
    \A i, j \in DOMAIN walletDocs :
        (/\ walletDocs[i].status = "active"
         /\ walletDocs[j].status = "active"
         /\ walletDocs[i].user_id = walletDocs[j].user_id
         /\ walletDocs[i].address = walletDocs[j].address) => i = j

----------------------------------------------------------------------------
(* The number of active wallets of user u. *)
ActiveCount(u) == Cardinality(ActiveOf(walletDocs, u))

(* C35: after any sequence or interleaving of add-wallet conversations    *)
(* and deletions each user has at most as many active wallets as the plan *)
(* allows, 3 for free and 10 for premium; and add_wallet_start ends the   *)
(* conversation without asking for an address when the user's count has   *)
(* reached the limit.                                                     *)
C35_WithinWalletLimit ==
    /\ \A u \in Users : ActiveCount(u) <= IF u \in premium THEN 10 ELSE 3
    /\ (/\ result.call = "add_wallet_start"
        /\ ActiveCount(result.user_id)
               >= IF result.user_id \in premium THEN 10 ELSE 3)
           => ~result.returned

(* C36: when the deletion confirmed through the button shown for a wallet *)
(* with name N and address A reports success, the user has no active      *)
(* WalletRecord with address A afterwards, also when several of the       *)
(* user's active wallets have the name N.                                 *)
C36_DeletesTheShownWallet ==
    (result.call = "delete_wallet" /\ result.returned) =>
        ActiveByAddress(walletDocs, result.user_id, result.address) = {}

----------------------------------------------------------------------------
(* Nothing is appended to the message log, no notification is sent and    *)
(* the registry stays as it is.                                           *)
NothingWritten ==
    [][/\ dbMessages' = dbMessages
       /\ ops' = ops
       /\ wallets' = wallets
       /\ premium' = premium
       /\ walletDocs' = walletDocs]_vars

(* C37, as stated: for any payload /test-message returns the messages    *)
(* create_message would generate, appends nothing to the message log,     *)
(* sends no notification and leaves the registry unchanged.               *)
C37_OnlyRenders ==
    /\ [](pc = "done" =>
             /\ Len(responses) = 1
             /\ responses[1].status = 200
             /\ responses[1].kind = "messages"
             /\ responses[1].messages \in AloneMessages(data))
    /\ NothingWritten

(* C37, amended: for a payload sent as JSON that parses, /test-message    *)
(* returns with status 200 the messages create_message generates; a       *)
(* payload that is not JSON is answered with 400 and one that does not    *)
(* parse with 500, both without messages; in every case nothing is        *)
(* appended to the message log, no notification is sent and the registry  *)
(* is unchanged.                                                          *)
C37_OnlyRendersJson ==
    /\ [](pc = "done" =>
             /\ Len(responses) = 1
             /\ IF data.kind = "not_json"
                THEN responses[1] = TestResponse(400, "error", <<>>)
                ELSE IF data.kind = "unparsable"
                THEN responses[1] = TestResponse(500, "error", <<>>)
                ELSE /\ responses[1].status = 200
                     /\ responses[1].kind = "messages"
                     /\ responses[1].messages \in AloneMessages(data))
    /\ NothingWritten

(* Two messages are returned and nothing was saved or sent. *)
C37_Witness ==
    /\ pc = "done"
    /\ Len(responses) = 1
    /\ responses[1].kind = "messages"
    /\ Len(responses[1].messages) = 2
    /\ dbMessages = <<>>
    /\ ops = <<>>

(* C38: in a rendered SWAP message that has a body, the links are keyed   *)
(* by the mint of the token whose symbol the header and the amount line   *)
(* show, the first fungible transfer get_token_info answers for, in every *)
(* order and mix of fungible and non-fungible transfers.                  *)
C38_LinksKeyedByShownToken ==
    (textIn # NoText /\ textOut # <<>>) =>
        ((textIn.kind = "swap" /\ textOut[1].body) =>
            /\ SymbolOf(textOut[1].links) = textOut[1].header
            /\ SymbolOf(textOut[1].links) = textOut[1].amount)

====
